---- MODULE Spec2Model ----
(***************************************************************************)
(* PipeEdge runtime control plane.                                         *)
(*                                                                         *)
(*   monitoring.py : the process-wide monitoring registry and the          *)
(*                   per-thread iteration context tracker                  *)
(*   runtime.py    : ThreadSafeCounter, handle_results, handle_cmd and     *)
(*                   the participants of run_pipeline_p2p/_rpc             *)
(*                                                                         *)
(* The registry's public operations run under _monitor_ctx_lock, so each   *)
(* is one atomic action; SpecLocks takes the lock apart into the steps of  *)
(* a call.  MonitorContext and MonitorIterationContext live                *)
(* in pipeedge.monitoring, outside the files modelled here; they are       *)
(* modelled from the design document (the Metric* operators).  Accuracy    *)
(* is accumulated exactly as work is and is not tracked separately; time   *)
(* is logical (a span's start stamp is the key's heartbeat count at the    *)
(* moment the span was opened).                                            *)
(***************************************************************************)
EXTENDS Integers, Sequences, FiniteSets, TLC

\* ------------------------------------------------------------------ bounds
\* completions per registry lifetime, concurrent scenario
MaxIter == 2
\* completions per registry lifetime, single-thread window scenario
MaxIterLong == 11
\* the work reported by a completion that has work (a microbatch's items)
MaxWork == 1
\* calls of ThreadSafeCounter methods in the counter scenario
MaxCalls == 4
\* largest quantity added in one call
MaxQuantity == 2
\* largest threshold waited for
MaxThreshold == 2
\* largest batch_size of a pipeline run
MaxBatch == 3
\* largest ubatch_size of a pipeline run
MaxUbatch == 2
\* largest rank of a participant (world_size - 1)
MaxRank == 2
\* largest command kind a participant is sent (0 and 1 are known)
MaxCmd == 2
\* commands of an unknown kind sent to a participant
MaxUnknown == 1
\* the WINDOW_SIZE environment override, when set
OverrideSize == 4

\* the longest list of legal bitwidths a controller is constructed with
MaxBitwidths == 4

\* targets are the fractions p/q >= 1 with p up to MaxTargetNum, q up to MaxTargetDen
MaxTargetNum == 9

MaxTargetDen == 2

\* the longest window a call is asked to split
MaxWindowLen == 3

\* --------------------------------------------------------------- constants
\* monitoring.py: _WINDOW_SIZE
WINDOW_SIZE == 10

\* utils/quant.py: math.isclose, rel_tol = 1e-09
REL_TOL_INV == 1000000000

\* the legal bitwidths a configuration draws from
BitwidthValues == {1, 2, 4, 8}

MONITORING_KEY_MODEL == "shard"
MONITORING_KEY_OUTPUT == "output"
MONITORING_KEY_QUANT_DECODE == "quant_decode"
MONITORING_KEY_QUANT_ENCODE == "quant_encode"
MONITORING_KEY_RECV == "recv"
MONITORING_KEY_SEND == "send"

\* the keys the threads of the monitoring scenarios share
Keys == {MONITORING_KEY_MODEL, MONITORING_KEY_OUTPUT}
\* the keys run_pipeline_p2p registers
AllKeys == Keys \cup {MONITORING_KEY_QUANT_DECODE, MONITORING_KEY_QUANT_ENCODE,
                      MONITORING_KEY_RECV, MONITORING_KEY_SEND}
Threads == {"T1", "T2"}
\* work is 0 (the initializing report of runtime.py) or the items of a microbatch
Work == {0, MaxWork}

VARIABLES
    environ,        \* os.environ[ENV_WINDOW_SIZE]: [set, str]
    _monitor_ctx,   \* the MonitorContext, or None
    _thr_ctx,       \* thread ident -> (key -> MonitorIterationContext)
    _locks,         \* key -> per-key lock (held flag)
    _work_types,    \* key -> work label
    _acc_types,     \* key -> accuracy label
    outcome,        \* how the last call ended: "ok" or the exception raised
    lastOp,         \* the public operation called last
    log,            \* the records the last call handed to the logger
    completed,      \* history: key -> completions that returned normally
    reported,       \* history: key -> sum of the work of those completions
    windowLogAt,    \* history: key -> ordinals of the completions that logged the window
    probe           \* history: successful open() and close() calls of this registry

monVars == <<environ, _monitor_ctx, _thr_ctx, _locks, _work_types, _acc_types,
             outcome, lastOp, log, completed, reported, windowLogAt, probe>>

VARIABLES
    _value,         \* ThreadSafeCounter._value
    _cond,          \* ThreadSafeCounter._cond: [owner, waiters]
    cpc,            \* thread -> its position in the counter method it runs
    carg,           \* thread -> the quantity or threshold of that call
    ready,          \* history: thread -> _value had reached the argument at the call
    blocked,        \* history: thread -> the call has waited on the condition
    calls           \* history: counter calls made

cntVars == <<_value, _cond, cpc, carg, ready, blocked, calls>>

VARIABLES
    cfg,            \* the run's arguments: [mode, batch_size, ubatch_size]
    mpc,            \* position of the data-owning participant's main thread
    mi,             \* index of the next add_key call of the main thread
    start_count,    \* run_pipeline_*: start_count
    label_queue,    \* runtime.label_queue
    pipeline,       \* microbatches enqueued whose result is not yet delivered
    hpc,            \* handler thread -> position in handle_results
    htask,          \* handler thread -> the result it handles, with its label
    resulted,       \* history: microbatches whose result reached results_counter
    stop_sent       \* CMD_STOP was broadcast and stop_event set

pipeVars == <<cfg, mpc, mi, start_count, label_queue, pipeline, hpc, htask,
              resulted, stop_sent>>

VARIABLES
    _monitor_ctx_lock,  \* monitoring._monitor_ctx_lock: the thread that holds it
    opc,                \* thread -> position in a public monitoring operation
    pend,               \* thread -> the operation it called
    snap                \* thread -> the MetricState its completion started from

lockVars == <<_monitor_ctx_lock, opc, pend, snap>>

VARIABLES
    rank,           \* run_pipeline_p2p: rank
    data_rank,      \* run_pipeline_p2p: data_rank
    ppc,            \* position of the participant's main thread
    sched_q,        \* runtime.sched_q
    stop_event,     \* runtime.stop_event
    sched,          \* run_pipeline_p2p: stage_layers, stage_quant, stage_ranks
    net,            \* commands sent to the participant and not yet received
    peer,           \* history: what the other participants have broadcast
    cmdlog,         \* the log record of the last handle_cmd
    received        \* history: the decoded schedules handle_cmd has queued

cmdVars == <<rank, data_rank, ppc, sched_q, stop_event, sched, net, peer,
             cmdlog, received>>

VARIABLES
    controller,     \* the AdaptiveBitwidthPerformanceController object
    locals,         \* the local variables of its last __call__
    ret             \* the tuple its last __call__ returned

ctlVars == <<controller, locals, ret>>

vars == <<environ, _monitor_ctx, _thr_ctx, _locks, _work_types, _acc_types,
          outcome, lastOp, log, completed, reported, windowLogAt, probe,
          _value, _cond, cpc, carg, ready, blocked, calls,
          cfg, mpc, mi, start_count, label_queue, pipeline, hpc, htask,
          resulted, stop_sent,
          _monitor_ctx_lock, opc, pend, snap,
          rank, data_rank, ppc, sched_q, stop_event, sched, net, peer,
          cmdlog, received,
          controller, locals, ret>>

\* ------------------------------------------------------------ Python values
EmptyMap == [k \in {} |-> 0]

MapSet(m, k, v) == [x \in DOMAIN m \cup {k} |-> IF x = k THEN v ELSE m[x]]

MapDel(m, k) == [x \in DOMAIN m \ {k} |-> m[x]]

RECURSIVE str(_)
\* str(n) for n >= 0: the decimal digits, most significant first
str(n) == IF n < 10 THEN <<n>> ELSE Append(str(n \div 10), n % 10)

RECURSIVE int(_)
\* int(s) for a string of decimal digits
int(s) == IF Len(s) = 0 THEN 0
          ELSE 10 * int(SubSeq(s, 1, Len(s) - 1)) + s[Len(s)]

\* os.getenv(ENV_WINDOW_SIZE, default)
getenv(default) == IF environ.set THEN environ.str ELSE default

get_window_size == int(getenv(str(WINDOW_SIZE)))

\* ------------------------------------------- pipeedge.monitoring (document)
None == [exists |-> FALSE, opened |-> FALSE, energy |-> FALSE,
         window_size |-> 0, hb |-> EmptyMap]

NewMetricState == [count |-> 0, instant_work |-> 0, window_work |-> 0,
                   global_work |-> 0, timed |-> FALSE]

\* MonitorContext(key=, window_size=, ..., energy_lib=)
MonitorContext(key, window_size, energy) ==
    [exists |-> TRUE, opened |-> FALSE, energy |-> energy,
     window_size |-> window_size, hb |-> MapSet(EmptyMap, key, NewMetricState)]

\* MonitorContext.open(), when it does not raise
MetricOpen(ctx) == [ctx EXCEPT !.opened = TRUE]

\* MonitorContext.add_heartbeat(key=)
MetricAddHeartbeat(ctx, key) == [ctx EXCEPT !.hb = MapSet(ctx.hb, key, NewMetricState)]

\* MonitorContext.keys()
MetricKeys(ctx) == DOMAIN ctx.hb

\* MonitorIterationContext() after MonitorContext.iteration_start(iter_ctx=)
MonitorIterationContext(ctx, key) == [t_start |-> ctx.hb[key].count]

NoIterCtx == [t_start |-> -1]

\* MonitorContext.iteration(key=, work=, accuracy=, iter_ctx=): one heartbeat.
\* The heartbeat's tag is the number of heartbeats issued before it; the window
\* accumulator restarts with the first heartbeat of every window.
MetricIteration(ctx, key, work, iter_ctx) ==
    LET m == ctx.hb[key]
        tag == m.count
    IN  [ctx EXCEPT !.hb[key] =
            [count |-> m.count + 1,
             instant_work |-> work,
             window_work |-> IF tag % ctx.window_size = 0 THEN work
                             ELSE m.window_work + work,
             global_work |-> m.global_work + work,
             timed |-> iter_ctx # NoIterCtx]]

\* MonitorContext.get_tag(key=): the tag of the key's last heartbeat
MetricGetTag(ctx, key) == ctx.hb[key].count - 1

\* MonitorContext.get_global_work(key=)
MetricGlobalWork(ctx, key) == ctx.hb[key].global_work

\* ------------------------------------------------------------ monitoring.py
LogRecord(kind, key, work) == [kind |-> kind, key |-> key, work |-> work]

\* _log_instant / _log_window / _log_global read the key's labels
_log_instant(ctx, key) == LogRecord("instant", key, ctx.hb[key].instant_work)

_log_window(ctx, key) == LogRecord("window", key, ctx.hb[key].window_work)

_log_global(ctx, key) == LogRecord("global", key, MetricGlobalWork(ctx, key))

\* a push that replaces the span it finds instead of raising
_iter_ctx_push_overwrite(thr_ctx, ident, key, iter_ctx) ==
    LET created == IF ident \notin DOMAIN thr_ctx
                   THEN MapSet(thr_ctx, ident, EmptyMap) ELSE thr_ctx
    IN  [raised |-> FALSE,
         thr_ctx |-> MapSet(created, ident, MapSet(created[ident], key, iter_ctx))]

\* _iter_ctx_push: [raised, thr_ctx]
_iter_ctx_push(thr_ctx, ident, key, iter_ctx) ==
    LET created == IF ident \notin DOMAIN thr_ctx
                   THEN MapSet(thr_ctx, ident, EmptyMap) ELSE thr_ctx
        keymap == created[ident]
    IN  IF key \in DOMAIN keymap
        THEN [raised |-> TRUE, thr_ctx |-> created]
        ELSE [raised |-> FALSE,
              thr_ctx |-> MapSet(created, ident, MapSet(keymap, key, iter_ctx))]

\* a pop with a default, dict.pop(key, None), that never raises
_iter_ctx_pop_default(thr_ctx, ident, key) ==
    IF ident \notin DOMAIN thr_ctx \/ key \notin DOMAIN thr_ctx[ident]
    THEN [raised |-> FALSE, thr_ctx |-> thr_ctx, iter_ctx |-> NoIterCtx]
    ELSE LET popped == MapDel(thr_ctx[ident], key)
         IN  [raised |-> FALSE,
              thr_ctx |-> IF DOMAIN popped = {} THEN MapDel(thr_ctx, ident)
                          ELSE MapSet(thr_ctx, ident, popped),
              iter_ctx |-> thr_ctx[ident][key]]

\* a pop that takes the key's span from whichever thread holds one
_iter_ctx_pop_any_thread(thr_ctx, ident, key) ==
    LET owners == {t \in DOMAIN thr_ctx : key \in DOMAIN thr_ctx[t]}
        owner  == IF ident \in owners \/ owners = {} THEN ident
                  ELSE CHOOSE t \in owners : TRUE
    IN  [_iter_ctx_pop_default(thr_ctx, owner, key) EXCEPT !.raised = owners = {}]

\* a pop without the clean-up: the thread's map stays when it becomes empty
_iter_ctx_pop_keep_empty(thr_ctx, ident, key) ==
    IF ident \notin DOMAIN thr_ctx \/ key \notin DOMAIN thr_ctx[ident]
    THEN [raised |-> TRUE, thr_ctx |-> thr_ctx, iter_ctx |-> NoIterCtx]
    ELSE [raised |-> FALSE,
          thr_ctx |-> MapSet(thr_ctx, ident, MapDel(thr_ctx[ident], key)),
          iter_ctx |-> thr_ctx[ident][key]]

\* _iter_ctx_pop: [raised, thr_ctx, iter_ctx]
_iter_ctx_pop(thr_ctx, ident, key) ==
    IF ident \notin DOMAIN thr_ctx \/ key \notin DOMAIN thr_ctx[ident]
    THEN [raised |-> TRUE, thr_ctx |-> thr_ctx, iter_ctx |-> NoIterCtx]
    ELSE LET popped == MapDel(thr_ctx[ident], key)
         IN  [raised |-> FALSE,
              thr_ctx |-> IF DOMAIN popped = {} THEN MapDel(thr_ctx, ident)
                          ELSE MapSet(thr_ctx, ident, popped),
              iter_ctx |-> thr_ctx[ident][key]]

NoHistory == [k \in AllKeys |-> 0]

NoWindowLog == [k \in AllKeys |-> {}]

UnchangedRegistry ==
    UNCHANGED <<_monitor_ctx, _thr_ctx, _locks, _work_types, _acc_types>>

UnchangedHistory == UNCHANGED <<completed, reported, windowLogAt>>

\* no open() or close() has been called
NoProbe == [opens |-> 0, closes |-> 0]

\* _monitor_ctx.open() was called and returned, or raised OSError
open_called(p, opened) == IF opened THEN [p EXCEPT !.opens = @ + 1] ELSE p

\* a _finish that drops the context without closing it
close_not_called(p) == p

\* _monitor_ctx.close() was called
close_called(p) == [p EXCEPT !.closes = @ + 1]

\* an _init that gives up at the first failed open()
_init_raised_no_retry(open1, open2) == ~open1

\* _init raises when MonitorContext.open() fails in the except clause too
_init_raised(open1, open2) == ~open1 /\ ~open2

\* the logger calls of _init: the energy source or the missing library, then
\* the error and the warning of the except clause
_init_log(key, libFound, open1) ==
    {IF libFound THEN LogRecord("info: energy source", key, 0)
                 ELSE LogRecord("warning: no energymon library", key, 0)}
    \cup (IF open1 THEN {}
          ELSE {LogRecord("error: open", key, 0),
                LogRecord("warning: retry without energy", key, 0)})

\* _init: libFound is whether the energymon library is found, open1 and open2
\* whether the first and the retried MonitorContext.open() succeed.
_init(key, work_type, acc_type, libFound, open1, open2) ==
    LET window_size == get_window_size
        created == MonitorContext(key, window_size, libFound)
        retry == MonitorContext(key, window_size, FALSE)
    IN  /\ completed' = NoHistory
        /\ reported' = NoHistory
        /\ windowLogAt' = NoWindowLog
        /\ probe' = IF open1 THEN open_called(NoProbe, open1)
                    ELSE open_called(open_called(NoProbe, open1), open2)
        /\ log' = _init_log(key, libFound, open1)
        /\ UNCHANGED <<environ, _thr_ctx>>
        /\ IF ~_init_raised(open1, open2)
           THEN /\ _monitor_ctx' = MetricOpen(IF open1 THEN created ELSE retry)
                /\ _locks' = MapSet(_locks, key, FALSE)
                /\ _work_types' = MapSet(_work_types, key, work_type)
                /\ _acc_types' = MapSet(_acc_types, key, acc_type)
                /\ outcome' = "ok"
           ELSE /\ _monitor_ctx' = retry
                /\ UNCHANGED <<_locks, _work_types, _acc_types>>
                /\ outcome' = "OSError"

\* init is called once, on an absent registry (runtime.py: run_pipeline_*)
init(key, work_type, acc_type, libFound, open1, open2) ==
    /\ _monitor_ctx = None
    /\ _init(key, work_type, acc_type, libFound, open1, open2)
    /\ lastOp' = "init"

\* the keys _finish logs: for key in _monitor_ctx.keys()
_finish_keys(ctx) == MetricKeys(ctx)

\* _finish
_finish ==
    /\ UNCHANGED environ
    /\ IF _monitor_ctx = None
       THEN /\ UnchangedRegistry
            /\ UnchangedHistory
            /\ UNCHANGED probe
            /\ log' = {}
            /\ outcome' = "ok"
       ELSE IF \E key \in MetricKeys(_monitor_ctx) : key \notin DOMAIN _work_types
       THEN \* _log_global raises on a key without labels
            /\ UnchangedRegistry
            /\ UnchangedHistory
            /\ UNCHANGED probe
            /\ log' = {}
            /\ outcome' = "KeyError: labels"
       ELSE /\ completed' = NoHistory
            /\ reported' = NoHistory
            /\ windowLogAt' = NoWindowLog
            /\ probe' = close_called(probe)
            /\ log' = {_log_global(_monitor_ctx, key) : key \in _finish_keys(_monitor_ctx)}
            /\ _monitor_ctx' = None
            /\ _thr_ctx' = EmptyMap
            /\ _locks' = EmptyMap
            /\ _work_types' = EmptyMap
            /\ _acc_types' = EmptyMap
            /\ outcome' = "ok"

finish ==
    /\ _finish
    /\ lastOp' = "finish"

\* an _add_key without the check for an absent registry
_add_key_unguarded(key, work_type, acc_type) ==
    /\ UNCHANGED <<environ, _thr_ctx, completed, reported, windowLogAt, probe>>
    /\ log' = {}
    /\ outcome' = "ok"
    /\ _monitor_ctx' = MetricAddHeartbeat(_monitor_ctx, key)
    /\ _locks' = MapSet(_locks, key, FALSE)
    /\ _work_types' = MapSet(_work_types, key, work_type)
    /\ _acc_types' = MapSet(_acc_types, key, acc_type)

\* _add_key; each key is registered once (runtime.py: run_pipeline_*)
_add_key(key, work_type, acc_type) ==
    /\ UNCHANGED <<environ, _thr_ctx, completed, reported, windowLogAt, probe>>
    /\ log' = {}
    /\ outcome' = "ok"
    /\ IF _monitor_ctx = None
       THEN UnchangedRegistry
       ELSE /\ _monitor_ctx' = MetricAddHeartbeat(_monitor_ctx, key)
            /\ _locks' = MapSet(_locks, key, FALSE)
            /\ _work_types' = MapSet(_work_types, key, work_type)
            /\ _acc_types' = MapSet(_acc_types, key, acc_type)

add_key(key, work_type, acc_type) ==
    /\ _monitor_ctx # None => key \notin MetricKeys(_monitor_ctx)
    /\ _add_key(key, work_type, acc_type)
    /\ lastOp' = "add_key"

\* _iteration_start
_iteration_start(ident, key) ==
    /\ UNCHANGED <<environ, _monitor_ctx, _locks, _work_types, _acc_types,
                   completed, reported, windowLogAt, probe>>
    /\ log' = {}
    /\ IF _monitor_ctx = None
       THEN /\ UNCHANGED _thr_ctx
            /\ outcome' = "ok"
       ELSE IF key \notin DOMAIN _locks
       THEN /\ UNCHANGED _thr_ctx
            /\ outcome' = "KeyError: locks"
       ELSE LET pushed == _iter_ctx_push(_thr_ctx, ident, key,
                                         MonitorIterationContext(_monitor_ctx, key))
            IN  /\ _thr_ctx' = pushed.thr_ctx
                /\ outcome' = IF pushed.raised THEN "KeyError: collision" ELSE "ok"

iteration_start(ident, key) ==
    /\ _iteration_start(ident, key)
    /\ lastOp' = "iteration_start"

\* a report that drops the caller's work and sends the default, work=1
ReportIteration_default_work(ctx, key, work, iter_ctx) ==
    MetricIteration(ctx, key, 1, iter_ctx)

\* a report that is skipped when there is no span to time
ReportIteration_skip_untimed(ctx, key, work, iter_ctx) ==
    IF iter_ctx = NoIterCtx THEN ctx ELSE MetricIteration(ctx, key, work, iter_ctx)

\* _iteration's call _monitor_ctx.iteration(key=key, work=work, ..., iter_ctx=iter_ctx)
ReportIteration(ctx, key, work, iter_ctx) ==
    MetricIteration(ctx, key, work, iter_ctx)

\* a logging tail without the test for tag 0
IterationLog_every_tag(ctx, key) ==
    LET tag == MetricGetTag(ctx, key)
    IN  {_log_instant(ctx, key)}
        \cup (IF (tag + 1) % WINDOW_SIZE = 0 THEN {_log_window(ctx, key)} ELSE {})

\* the logging tail of _iteration, for the tag of the heartbeat just issued
IterationLog(ctx, key) ==
    LET tag == MetricGetTag(ctx, key)
    IN  IF tag > 0
        THEN {_log_instant(ctx, key)}
             \cup (IF tag > 0 /\ (tag + 1) % WINDOW_SIZE = 0
                   THEN {_log_window(ctx, key)} ELSE {})
        ELSE {}

\* _iteration
_iteration(ident, key, work, safe) ==
    /\ UNCHANGED <<environ, _locks, _work_types, _acc_types, probe>>
    /\ IF _monitor_ctx = None
       THEN /\ UNCHANGED <<_monitor_ctx, _thr_ctx>>
            /\ UnchangedHistory
            /\ log' = {}
            /\ outcome' = "ok"
       ELSE IF key \notin DOMAIN _locks
       THEN /\ UNCHANGED <<_monitor_ctx, _thr_ctx>>
            /\ UnchangedHistory
            /\ log' = {}
            /\ outcome' = "KeyError: locks"
       ELSE LET popped == _iter_ctx_pop(_thr_ctx, ident, key)
                ctx == ReportIteration(_monitor_ctx, key, work, popped.iter_ctx)
                logged == IterationLog(ctx, key)
            IN  IF popped.raised /\ safe
                THEN /\ UNCHANGED <<_monitor_ctx, _thr_ctx>>
                     /\ UnchangedHistory
                     /\ log' = {}
                     /\ outcome' = "KeyError: no context"
                ELSE /\ _thr_ctx' = popped.thr_ctx
                     /\ _monitor_ctx' = ctx
                     /\ log' = logged
                     /\ outcome' = "ok"
                     /\ completed' = [completed EXCEPT ![key] = @ + 1]
                     /\ reported' = [reported EXCEPT ![key] = @ + work]
                     /\ windowLogAt' =
                            IF \E r \in logged : r.kind = "window"
                            THEN [windowLogAt EXCEPT ![key] = @ \cup {completed[key] + 1}]
                            ELSE windowLogAt

iteration(ident, key, work, safe) ==
    /\ _iteration(ident, key, work, safe)
    /\ lastOp' = "iteration"

\* the registry before init
EnvWindowSizes == {[set |-> FALSE, str |-> <<>>],
                   [set |-> TRUE, str |-> str(OverrideSize)]}

WorkLabels == {"items"}

AccLabels == {"acc"}

InitMonitoring ==
    /\ environ \in EnvWindowSizes
    /\ _monitor_ctx = None
    /\ _thr_ctx = EmptyMap
    /\ _locks = EmptyMap
    /\ _work_types = EmptyMap
    /\ _acc_types = EmptyMap
    /\ outcome = "ok"
    /\ lastOp = "none"
    /\ log = {}
    /\ completed = NoHistory
    /\ reported = NoHistory
    /\ windowLogAt = NoWindowLog
    /\ probe = NoProbe

\* --------------------------------- monitoring.py: _monitor_ctx_lock, _locks
\* the public operations of the module
Operations == {"init", "add_key", "iteration_start", "iteration", "finish"}

NoCall == [op |-> "none", key |-> "none"]

NoSnap == [count |-> -1]

InitLocks ==
    /\ _monitor_ctx_lock = "none"
    /\ opc = [t \in Threads |-> "idle"]
    /\ pend = [t \in Threads |-> NoCall]
    /\ snap = [t \in Threads |-> NoSnap]

\* a lock that is handed to every caller
lock_free_always(owner) == TRUE

\* threading.Lock.acquire() returns when no thread holds the lock
lock_free(owner) == owner = "none"

\* the MetricState of a key as the registry holds it
MetricStateOf(ctx, key) ==
    IF ctx # None /\ key \in MetricKeys(ctx) THEN ctx.hb[key] ELSE NoSnap

\* a thread calls a public operation
op_call(t, op, key) ==
    /\ opc[t] = "idle"
    /\ opc' = [opc EXCEPT ![t] = "with _monitor_ctx_lock"]
    /\ pend' = [pend EXCEPT ![t] = [op |-> op, key |-> key]]
    /\ UNCHANGED <<_monitor_ctx_lock, snap>>

\* the calls the program makes: init on an absent registry, add_key for a key
\* that is not registered yet (runtime.py: run_pipeline_*)
op_defined(call) ==
    /\ call.op = "init" => _monitor_ctx = None
    /\ call.op = "add_key" =>
          (_monitor_ctx = None \/ call.key \notin MetricKeys(_monitor_ctx))

\* with _monitor_ctx_lock: the lock is acquired
op_acquire(t) ==
    /\ opc[t] = "with _monitor_ctx_lock"
    /\ op_defined(pend[t])
    /\ lock_free(_monitor_ctx_lock)
    /\ _monitor_ctx_lock' = t
    /\ opc' = [opc EXCEPT ![t] = "body"]
    /\ UNCHANGED <<pend, snap>>

\* with _locks[key]: the key's lock is acquired, when _iteration_start and
\* _iteration get that far
key_lock_reached(key) == _monitor_ctx # None /\ key \in DOMAIN _locks

key_lock_acquire(t) ==
    /\ key_lock_reached(pend[t].key) => ~_locks[pend[t].key]
    /\ _locks' = IF key_lock_reached(pend[t].key)
                 THEN [_locks EXCEPT ![pend[t].key] = TRUE] ELSE _locks
    /\ UNCHANGED <<environ, _monitor_ctx, _thr_ctx, _work_types, _acc_types,
                   outcome, lastOp, log, completed, reported, windowLogAt, probe>>

\* a with statement that keeps the key's lock when its body raised
key_lock_kept_on_error(held, result) == held /\ result # "ok"

\* the with statement of a key's lock ends, normally or by an exception
key_lock_released(held, result) == FALSE

\* the body of init, add_key or finish, under the lock
op_body(t) ==
    /\ opc[t] = "body"
    /\ \/ /\ pend[t].op = "init"
          /\ \E wt \in WorkLabels, at \in AccLabels, lib, o1, o2 \in BOOLEAN :
                 init(pend[t].key, wt, at, lib, o1, o2)
       \/ /\ pend[t].op = "add_key"
          /\ \E wt \in WorkLabels, at \in AccLabels : add_key(pend[t].key, wt, at)
       \/ /\ pend[t].op = "finish"
          /\ finish
    /\ opc' = [opc EXCEPT ![t] = "release"]
    /\ UNCHANGED <<_monitor_ctx_lock, pend, snap>>

\* _iteration_start enters and takes the key's lock
op_iteration_start_enter(t) ==
    /\ opc[t] = "body"
    /\ pend[t].op = "iteration_start"
    /\ key_lock_acquire(t)
    /\ opc' = [opc EXCEPT ![t] = "iteration_start: push"]
    /\ UNCHANGED <<_monitor_ctx_lock, pend, snap>>

\* _iteration_start opens the span
op_iteration_start_push(t) ==
    /\ opc[t] = "iteration_start: push"
    /\ iteration_start(t, pend[t].key)
    /\ opc' = [opc EXCEPT ![t] = "release"]
    /\ UNCHANGED <<_monitor_ctx_lock, pend, snap>>

\* _iteration enters, takes the key's lock and reads the key's MetricState
op_iteration_read(t) ==
    /\ opc[t] = "body"
    /\ pend[t].op = "iteration"
    /\ key_lock_acquire(t)
    /\ snap' = [snap EXCEPT ![t] = MetricStateOf(_monitor_ctx, pend[t].key)]
    /\ opc' = [opc EXCEPT ![t] = "iteration: report"]
    /\ UNCHANGED <<_monitor_ctx_lock, pend>>

\* _iteration reports the heartbeat and logs
op_iteration_report(t, W) ==
    /\ opc[t] = "iteration: report"
    /\ \E work \in W, safe \in BOOLEAN : iteration(t, pend[t].key, work, safe)
    /\ opc' = [opc EXCEPT ![t] = "release"]
    /\ UNCHANGED <<_monitor_ctx_lock, pend, snap>>

\* the with statements end: the key's lock, then the lock, is released
op_release(t) ==
    /\ opc[t] = "release"
    /\ _locks' = [k \in DOMAIN _locks |-> key_lock_released(_locks[k], outcome)]
    /\ UNCHANGED <<environ, _monitor_ctx, _thr_ctx, _work_types, _acc_types,
                   outcome, lastOp, log, completed, reported, windowLogAt, probe>>
    /\ _monitor_ctx_lock' = "none"
    /\ opc' = [opc EXCEPT ![t] = "idle"]
    /\ pend' = [pend EXCEPT ![t] = NoCall]
    /\ snap' = [snap EXCEPT ![t] = NoSnap]

\* the thread is inside a public operation
InOperation(t) ==
    opc[t] \in {"body", "iteration_start: push", "iteration: report", "release"}

\* ------------------------------------------------- utils/quant.py: numbers
\* Python floats are modelled as exact fractions n/d in lowest terms, d > 0
RECURSIVE gcd(_, _)
gcd(a, b) == IF b = 0 THEN a ELSE gcd(b, a % b)

abs(i) == IF i < 0 THEN 0 - i ELSE i

Rat(n, d) ==
    LET s == IF d < 0 THEN 0 - 1 ELSE 1
        g == gcd(abs(n), abs(d))
    IN  [n |-> (s * n) \div g, d |-> (s * d) \div g]

float(i) == Rat(i, 1)

RSub(a, b) == Rat(a.n * b.d - b.n * a.d, a.d * b.d)

RMul(a, b) == Rat(a.n * b.n, a.d * b.d)

RDiv(a, b) == Rat(a.n * b.d, a.d * b.n)

RLe(a, b) == a.n * b.d <= b.n * a.d

RLt(a, b) == a.n * b.d < b.n * a.d

RAbs(a) == Rat(abs(a.n), a.d)

RMax(a, b) == IF RLe(a, b) THEN b ELSE a

\* math.isclose(a, b): abs(a - b) <= rel_tol * max(abs(a), abs(b)), abs_tol 0
isclose(a, b) ==
    LET diff == RAbs(RSub(a, b))
        big  == RMax(RAbs(a), RAbs(b))
    IN  IF diff.n = 0 THEN TRUE
        ELSE LET ratio == RDiv(diff, big)
             IN  ratio.n <= ratio.d \div REL_TOL_INV

\* round(x) of a float: the nearest integer, a tie going to the even one
round(x) ==
    LET f     == x.n \div x.d
        twice == 2 * (x.n - f * x.d)
    IN  IF twice < x.d THEN f
        ELSE IF twice > x.d THEN f + 1
        ELSE IF f % 2 = 0 THEN f ELSE f + 1

\* list.sort(reverse=True)
RECURSIVE insert_reverse(_, _)
insert_reverse(s, b) ==
    IF s = <<>> THEN <<b>>
    ELSE IF b >= Head(s) THEN <<b>> \o s
    ELSE <<Head(s)>> \o insert_reverse(Tail(s), b)

RECURSIVE sort_reverse(_)
sort_reverse(s) ==
    IF s = <<>> THEN <<>> ELSE insert_reverse(sort_reverse(Tail(s)), Head(s))

\* ------------------- utils/quant.py: AdaptiveBitwidthPerformanceController
NoController ==
    [constructed |-> FALSE, raised |-> "none", _bitwidths |-> <<>>,
     _speedups |-> <<>>, u_0 |-> float(1), u_max |-> float(1)]

NoLocals ==
    [called |-> FALSE, xup_targ |-> float(1), window_len |-> 0, idx_slow |-> 0,
     idx_fast |-> 0, xup_slow |-> float(1), xup_fast |-> float(1),
     degenerate |-> FALSE, _x |-> float(0)]

NoReturn == <<>>

\* __init__: the bitwidths copied and sorted, their speedups, the seed of the
\* feedback controller; an empty list fails at self._bitwidths[0]
speedups_of(bw) == [i \in 1..Len(bw) |-> Rat(bw[1], bw[i])]

Construct(bitwidths, bitwidth_start) ==
    IF bitwidths = <<>>
    THEN [NoController EXCEPT !.raised = "IndexError"]
    ELSE LET bw == sort_reverse(bitwidths)
             sp == speedups_of(bw)
         IN  [constructed |-> TRUE, raised |-> "none", _bitwidths |-> bw,
              _speedups |-> sp, u_0 |-> Rat(bw[1], bitwidth_start),
              u_max |-> sp[Len(sp)]]

\* the relative speedups of the bounded model: fractions from 1.0 upwards
Targets == UNION {{Rat(p, q) : p \in q..MaxTargetNum} : q \in 1..MaxTargetDen}

\* AdaptiveIntegralXupController.__call__: the feedback controller returns a
\* target relative speedup clamped to [1, u_max]
feedback_controller(c) == {t \in Targets : RLe(float(1), t) /\ RLe(t, c.u_max)}

\* idx_slow = max(0, len([s for s in self._speedups if s <= xup_targ]) - 1)
idx_slow_first(sp, xup_targ) == 0

idx_slow_of(sp, xup_targ) ==
    LET n == Cardinality({i \in 1..Len(sp) : RLe(sp[i], xup_targ)})
    IN  IF n - 1 > 0 THEN n - 1 ELSE 0

\* idx_fast = min(idx_slow + 1, len(self._speedups) - 1)
idx_fast_of(sp, idx_slow) ==
    IF idx_slow + 1 < Len(sp) - 1 THEN idx_slow + 1 ELSE Len(sp) - 1

\* _x = (xup_slow * (xup_fast - xup_targ)) / (xup_targ * (xup_fast - xup_slow))
split_fraction_fast(xup_slow, xup_fast, xup_targ) ==
    RDiv(RMul(xup_fast, RSub(xup_fast, xup_targ)),
         RMul(xup_targ, RSub(xup_fast, xup_slow)))

\* a fraction that is not divided by the target
split_fraction_undivided(xup_slow, xup_fast, xup_targ) ==
    RDiv(RMul(xup_slow, RSub(xup_fast, xup_targ)), RSub(xup_fast, xup_slow))

split_fraction(xup_slow, xup_fast, xup_targ) ==
    RDiv(RMul(xup_slow, RSub(xup_fast, xup_targ)),
         RMul(xup_targ, RSub(xup_fast, xup_slow)))

\* _x = 0 # could also be 1.0
degenerate_fraction_one == float(1)

degenerate_fraction == float(0)

\* the frame of __call__ after line 70, Python indices counted from 0
CallLocals(c, xup_targ, window_len) ==
    LET sp       == c._speedups
        idx_slow == idx_slow_of(sp, xup_targ)
        idx_fast == idx_fast_of(sp, idx_slow)
        xup_slow == sp[idx_slow + 1]
        xup_fast == sp[idx_fast + 1]
        close    == isclose(xup_slow, xup_fast)
    IN  [called |-> TRUE, xup_targ |-> xup_targ, window_len |-> window_len,
         idx_slow |-> idx_slow, idx_fast |-> idx_fast, xup_slow |-> xup_slow,
         xup_fast |-> xup_fast, degenerate |-> close,
         _x |-> IF close THEN degenerate_fraction
                ELSE split_fraction(xup_slow, xup_fast, xup_targ)]

\* num_iter = round(window_len * _x) and the returned tuple
CallReturn(c, f) ==
    <<c._bitwidths[f.idx_slow + 1], c._bitwidths[f.idx_fast + 1],
      round(RMul(float(f.window_len), f._x))>>

BitwidthLists ==
    UNION {[1..n -> BitwidthValues] : n \in 0..MaxBitwidths}

\* the caller has taken the returned tuple and the frame of the call is gone
ControllerReturn ==
    /\ locals.called
    /\ locals' = NoLocals
    /\ ret' = NoReturn
    /\ UNCHANGED controller

InitController ==
    /\ controller = NoController
    /\ locals = NoLocals
    /\ ret = NoReturn

\* AdaptiveBitwidthPerformanceController(perf_constraint, bitwidths, bitwidth_start)
ControllerInit ==
    /\ controller = NoController
    /\ \E bitwidths \in BitwidthLists, bitwidth_start \in BitwidthValues :
           controller' = Construct(bitwidths, bitwidth_start)
    /\ locals' = NoLocals
    /\ ret' = NoReturn

\* __call__(perf_measured, window_len) with the target of the feedback controller
ControllerCall ==
    /\ controller.constructed
    /\ ~locals.called
    /\ \E xup_targ \in feedback_controller(controller), window_len \in 0..MaxWindowLen :
           /\ locals' = CallLocals(controller, xup_targ, window_len)
           /\ ret' = CallReturn(controller, locals')
    /\ UNCHANGED controller

\* ------------------------------------------- runtime.py: ThreadSafeCounter
\* the thread of run_pipeline_* and the threads that run handle_results
MainThread == "main"

Handlers == {"H1", "H2"}

CounterThreads == {MainThread} \cup Handlers

NoThread == "none"

\* threading.Condition.notify_all(): every waiter leaves wait() and goes for the lock
notify_all(pcs, waiters) ==
    [t \in DOMAIN pcs |-> IF t \in waiters THEN "wait: reacquire" ELSE pcs[t]]

\* an add that notifies nobody
add_notified_none(waiters) == {}

\* the waiters woken by add's self._cond.notify_all()
add_notified(waiters) == waiters

\* a loop test that also waits at the threshold itself
wait_gte_test_lte(v, threshold) == v <= threshold

\* wait_gte's loop test: while self._value < threshold
wait_gte_test(v, threshold) == v < threshold

InitCounter ==
    /\ _value = 0
    /\ _cond = [owner |-> NoThread, waiters |-> {}]
    /\ cpc = [t \in CounterThreads |-> "idle"]
    /\ carg = [t \in CounterThreads |-> 0]
    /\ ready = [t \in CounterThreads |-> FALSE]
    /\ blocked = [t \in CounterThreads |-> FALSE]
    /\ calls = 0

\* a thread enters a method of results_counter
Call(t, method, arg) ==
    /\ cpc[t] = "idle"
    /\ cpc' = [cpc EXCEPT ![t] = method]
    /\ carg' = [carg EXCEPT ![t] = arg]
    /\ ready' = [ready EXCEPT ![t] = (_value >= arg)]
    /\ blocked' = [blocked EXCEPT ![t] = FALSE]
    /\ calls' = calls + 1
    /\ UNCHANGED <<_value, _cond>>

\* with self._cond: and the re-acquisition that ends Condition.wait()
cond_acquire(t) ==
    /\ cpc[t] \in {"value: with", "add: with", "wait_gte: with", "wait: reacquire"}
    /\ _cond.owner = NoThread
    /\ _cond' = [_cond EXCEPT !.owner = t]
    /\ cpc' = [cpc EXCEPT ![t] = CASE cpc[t] = "value: with" -> "value: body"
                                   [] cpc[t] = "add: with" -> "add: body"
                                   [] OTHER -> "wait_gte: test"]
    /\ UNCHANGED <<_value, carg, ready, blocked, calls>>

\* ThreadSafeCounter.value, under the lock; the caller reads _value
value(t) ==
    /\ cpc[t] = "value: body"
    /\ _cond.owner = t
    /\ cpc' = [notify_all(cpc, _cond.waiters) EXCEPT ![t] = "returned"]
    /\ _cond' = [owner |-> NoThread, waiters |-> {}]
    /\ UNCHANGED <<_value, carg, ready, blocked, calls>>

\* ThreadSafeCounter.add, under the lock
add(t) ==
    /\ cpc[t] = "add: body"
    /\ _cond.owner = t
    /\ _value' = _value + carg[t]
    /\ LET woken == add_notified(_cond.waiters)
       IN  /\ cpc' = [notify_all(cpc, woken) EXCEPT ![t] = "returned"]
           /\ _cond' = [owner |-> NoThread, waiters |-> _cond.waiters \ woken]
    /\ UNCHANGED <<carg, ready, blocked, calls>>

\* ThreadSafeCounter.wait_gte, one pass of the loop under the lock:
\* Condition.wait() queues the thread and releases the lock in one step
wait_gte(t) ==
    /\ cpc[t] = "wait_gte: test"
    /\ _cond.owner = t
    /\ IF wait_gte_test(_value, carg[t])
       THEN /\ cpc' = [cpc EXCEPT ![t] = "wait: waiting"]
            /\ _cond' = [owner |-> NoThread, waiters |-> _cond.waiters \cup {t}]
            /\ blocked' = [blocked EXCEPT ![t] = TRUE]
       ELSE /\ cpc' = [cpc EXCEPT ![t] = "returned"]
            /\ _cond' = [_cond EXCEPT !.owner = NoThread]
            /\ UNCHANGED blocked
    /\ UNCHANGED <<_value, carg, ready, calls>>

\* the steps of a call in progress
CounterStep(t) == cond_acquire(t) \/ value(t) \/ add(t) \/ wait_gte(t)

\* the caller goes on after the method returned
Return(t) ==
    /\ cpc[t] = "returned"
    /\ cpc' = [cpc EXCEPT ![t] = "idle"]
    /\ carg' = [carg EXCEPT ![t] = 0]
    /\ ready' = [ready EXCEPT ![t] = FALSE]
    /\ blocked' = [blocked EXCEPT ![t] = FALSE]
    /\ UNCHANGED <<_value, _cond, calls>>

InWaitGte(t) ==
    cpc[t] \in {"wait_gte: with", "wait_gte: test", "wait: waiting", "wait: reacquire"}

\* the main thread reads and waits, the result handlers add (runtime.py)
CallValue == calls < MaxCalls /\ Call(MainThread, "value: with", 0) /\ UNCHANGED <<monVars, pipeVars, lockVars, cmdVars, ctlVars>>

CallWaitGte ==
    /\ calls < MaxCalls
    /\ \E n \in 1..MaxThreshold : Call(MainThread, "wait_gte: with", n)
    /\ UNCHANGED <<monVars, pipeVars, lockVars, cmdVars, ctlVars>>

CallAdd ==
    /\ calls < MaxCalls
    /\ \E t \in Handlers, q \in 1..MaxQuantity : Call(t, "add: with", q)
    /\ UNCHANGED <<monVars, pipeVars, lockVars, cmdVars, ctlVars>>

Acquire == (\E t \in CounterThreads : cond_acquire(t)) /\ UNCHANGED <<monVars, pipeVars, lockVars, cmdVars, ctlVars>>

RunValue == (\E t \in CounterThreads : value(t)) /\ UNCHANGED <<monVars, pipeVars, lockVars, cmdVars, ctlVars>>

RunAdd == (\E t \in CounterThreads : add(t)) /\ UNCHANGED <<monVars, pipeVars, lockVars, cmdVars, ctlVars>>

RunWaitGte == (\E t \in CounterThreads : wait_gte(t)) /\ UNCHANGED <<monVars, pipeVars, lockVars, cmdVars, ctlVars>>

Returned == (\E t \in CounterThreads : Return(t)) /\ UNCHANGED <<monVars, pipeVars, lockVars, cmdVars, ctlVars>>

NextCounter ==
    \/ CallValue
    \/ CallWaitGte
    \/ CallAdd
    \/ Acquire
    \/ RunValue
    \/ RunAdd
    \/ RunWaitGte
    \/ Returned

\* ------------------------------------ runtime.py: handle_cmd, the schedule
CMD_STOP == 0

CMD_SCHED == 1

Ranks == 0..MaxRank

NoSched == <<>>

NoLog == "none"

\* torch.tensor(data)
tensor(data) == [tolist |-> data]

\* Tensor.tolist()
tolist(t) == t.tolist

\* the stage-to-rank mappings get_pipeline_sched returns in the scenarios
StageRanks == {<<0>>, <<0, 1>>, <<1, MaxRank>>}

\* get_pipeline_sched with the default quantization: stage_layers,
\* stage_quant, stage_ranks
get_pipeline_sched(stage_ranks) ==
    << [i \in DOMAIN stage_ranks |-> <<2 * i - 1, 2 * i>>],
       [i \in DOMAIN stage_ranks |-> 0],
       stage_ranks >>

\* the tensors of cmd_broadcast(CMD_SCHED, ...)
encode_sched(stage_layers, stage_quant, stage_ranks, d) ==
    <<tensor(stage_layers), tensor(stage_quant), tensor(stage_ranks), tensor(d)>>

\* a decoding that loses the data rank
decode_sched_rank_0(tensors) ==
    [i \in DOMAIN tensors |-> IF i = Len(tensors) THEN 0 ELSE tolist(tensors[i])]

\* tuple(t.tolist() for t in tensors)
decode_sched(tensors) == [i \in DOMAIN tensors |-> tolist(tensors[i])]

\* a dispatch that takes every kind but CMD_SCHED for CMD_STOP
handle_cmd_kind_else_stop(cmd) ==
    IF cmd = CMD_SCHED THEN "sched" ELSE "stop"

\* the branch handle_cmd takes
handle_cmd_kind(cmd) ==
    IF cmd = CMD_STOP THEN "stop"
    ELSE IF cmd = CMD_SCHED THEN "sched"
    ELSE "unknown"

\* an event that stays as it is
event_set_noop(event) == event

\* threading.Event.set()
event_set(event) == TRUE

\* a put that queues the item twice
queue_put_twice(q, item) == Append(Append(q, item), item)

\* queue.Queue.put(item) on the unbounded sched_q
queue_put(q, item) == Append(q, item)

\* handle_cmd(cmd, tensors)
handle_cmd(cmd, tensors) ==
    LET kind == handle_cmd_kind(cmd)
    IN  /\ stop_event' = IF kind = "stop" THEN event_set(stop_event) ELSE stop_event
        /\ sched_q' = IF kind = "sched" THEN queue_put(sched_q, decode_sched(tensors))
                      ELSE sched_q
        /\ received' = IF kind = "sched" THEN Append(received, decode_sched(tensors))
                       ELSE received
        /\ cmdlog' = IF kind = "stop" THEN "info: handle_cmd: stop"
                     ELSE IF kind = "sched" THEN "info: handle_cmd: sched"
                     ELSE "warning: handle_cmd: Unknown command"

InitCommands ==
    /\ ppc = "start"
    /\ sched_q = <<>>
    /\ stop_event = FALSE
    /\ sched = NoSched
    /\ net = {}
    /\ peer = [sched |-> NoSched, stop |-> FALSE, unknown |-> 0]
    /\ cmdlog = NoLog
    /\ received = <<>>

Command(cmd, tensors) == [cmd |-> cmd, tensors |-> tensors]

\* the schedule was broadcast by rank 0, this participant or a peer
ScheduleBroadcast ==
    IF rank = 0 THEN ppc # "start" ELSE peer.sched # NoSched

\* the data rank of the run, as rank 0 broadcast it
RunDataRank == IF rank = 0 THEN data_rank ELSE peer.sched[4]

\* rank 0, a peer, runs lines 345-356: it broadcasts the schedule once
PeerBroadcastSched ==
    /\ rank # 0
    /\ peer.sched = NoSched
    /\ \E stage_ranks \in StageRanks, d \in Ranks :
           LET s == get_pipeline_sched(stage_ranks)
           IN  /\ net' = net \cup {Command(CMD_SCHED, encode_sched(s[1], s[2], s[3], d))}
               /\ peer' = [peer EXCEPT !.sched = <<s[1], s[2], s[3], d>>]
    /\ UNCHANGED <<rank, data_rank, ppc, sched_q, stop_event, sched, cmdlog, received>>
    /\ UNCHANGED <<monVars, cntVars, pipeVars, lockVars, ctlVars>>

\* the data rank, a peer, runs lines 411-413 once it has the schedule: it
\* broadcasts CMD_STOP once
PeerBroadcastStop ==
    /\ ScheduleBroadcast
    /\ RunDataRank # rank
    /\ ~peer.stop
    /\ net' = net \cup {Command(CMD_STOP, <<>>)}
    /\ peer' = [peer EXCEPT !.stop = TRUE]
    /\ UNCHANGED <<rank, data_rank, ppc, sched_q, stop_event, sched, cmdlog, received>>
    /\ UNCHANGED <<monVars, cntVars, pipeVars, lockVars, ctlVars>>

\* a peer with a later protocol sends a command of another kind
PeerSendUnknown ==
    /\ peer.unknown < MaxUnknown
    /\ \E cmd \in (0..MaxCmd) \ {CMD_STOP, CMD_SCHED} :
           net' = net \cup {Command(cmd, <<>>)}
    /\ peer' = [peer EXCEPT !.unknown = @ + 1]
    /\ UNCHANGED <<rank, data_rank, ppc, sched_q, stop_event, sched, cmdlog, received>>
    /\ UNCHANGED <<monVars, cntVars, pipeVars, lockVars, ctlVars>>

\* the command thread receives a command and calls handle_cmd; the thread is
\* the context's, which is entered after monitoring.init and the add_key calls
ReceiveCmd ==
    /\ mpc \notin {"init", "add_key", "raised"}
    /\ \E c \in net :
           /\ handle_cmd(c.cmd, c.tensors)
           /\ net' = net \ {c}
    /\ UNCHANGED <<rank, data_rank, ppc, sched, peer>>
    /\ UNCHANGED <<monVars, cntVars, pipeVars, lockVars, ctlVars>>

\* a participant that goes on to its stage without the schedule
GetOrAwaitSchedule_no_wait ==
    /\ ppc = "start"
    /\ mpc = "iteration"
    /\ IF rank = 0
       THEN \E stage_ranks \in StageRanks : sched' = get_pipeline_sched(stage_ranks)
       ELSE sched' = sched
    /\ ppc' = "running"
    /\ UNCHANGED <<rank, data_rank, sched_q, stop_event, net, peer, cmdlog, received>>
    /\ UNCHANGED <<monVars, cntVars, pipeVars, lockVars, ctlVars>>

\* if rank == 0: get_pipeline_sched and cmd_broadcast(CMD_SCHED, ...);
\* else: on to sched_q.get()
GetOrAwaitSchedule ==
    /\ ppc = "start"
    /\ mpc = "iteration"
    /\ IF rank = 0
       THEN /\ \E stage_ranks \in StageRanks : sched' = get_pipeline_sched(stage_ranks)
            /\ ppc' = "running"
       ELSE /\ sched' = sched
            /\ ppc' = "sched_q.get"
    /\ UNCHANGED <<rank, data_rank, sched_q, stop_event, net, peer, cmdlog, received>>
    /\ UNCHANGED <<monVars, cntVars, pipeVars, lockVars, ctlVars>>

\* stage_layers, stage_quant, stage_ranks, data_rank = sched_q.get()
SchedGet ==
    /\ ppc = "sched_q.get"
    /\ sched_q # <<>>
    /\ LET item == Head(sched_q)
       IN  /\ sched' = <<item[1], item[2], item[3]>>
           /\ data_rank' = item[4]
    /\ sched_q' = Tail(sched_q)
    /\ ppc' = "running"
    /\ UNCHANGED <<rank, stop_event, net, peer, cmdlog, received>>
    /\ UNCHANGED <<monVars, cntVars, pipeVars, lockVars, ctlVars>>

\* the model shard and the stage context are created; if rank == data_rank:
\* the data rank goes on to its batch, another rank to stop_event.wait() with
\* P2P and to the end of the run with RPC
StartStage ==
    /\ ppc = "running"
    /\ ppc' = IF rank = data_rank THEN "batch"
              ELSE IF cfg.mode = "p2p" THEN "stop_event.wait"
              ELSE "stopped"
    /\ mpc' = IF rank # data_rank /\ cfg.mode # "p2p" THEN "finish" ELSE mpc
    /\ UNCHANGED <<rank, data_rank, sched_q, stop_event, sched, net, peer, cmdlog, received>>
    /\ UNCHANGED <<cfg, mi, start_count, label_queue, pipeline, hpc, htask, resulted, stop_sent>>
    /\ UNCHANGED <<monVars, cntVars, lockVars, ctlVars>>

\* stop_event.wait() returns; the main thread leaves the contexts and goes on
\* to monitoring.finish()
StopEventWait ==
    /\ ppc = "stop_event.wait"
    /\ stop_event
    /\ ppc' = "stopped"
    /\ mpc' = "finish"
    /\ UNCHANGED <<rank, data_rank, sched_q, stop_event, sched, net, peer, cmdlog, received>>
    /\ UNCHANGED <<cfg, mi, start_count, label_queue, pipeline, hpc, htask, resulted, stop_sent>>
    /\ UNCHANGED <<monVars, cntVars, lockVars, ctlVars>>

\* ------------------------------- runtime.py: handle_results, run_pipeline_*
NoRun == [mode |-> "p2p", batch_size |-> 1, ubatch_size |-> 1]

NoTask == [id |-> 0, n_items |-> 0, label |-> 0]

\* ceil(n / u)
NumSplits(n, u) == (n + u - 1) \div u

\* Tensor.split(ubatch_size): the microbatches' item counts, the last one shorter
split(n, u) ==
    [i \in 1..NumSplits(n, u) |-> IF i * u <= n THEN u ELSE n - (i - 1) * u]

\* len(inputs): load_inputs returns batch_size inputs and as many labels
LenInputs == cfg.batch_size

Microbatches ==
    LET sizes == split(LenInputs, cfg.ubatch_size)
    IN  [i \in DOMAIN sizes |-> [id |-> i, n_items |-> sizes[i]]]

\* the add_key calls of run_pipeline_p2p and run_pipeline_rpc
AddKeyCalls ==
    IF cfg.mode = "p2p"
    THEN << <<MONITORING_KEY_OUTPUT, "classifications", "correct">>,
            <<MONITORING_KEY_QUANT_DECODE, "tensors", "bits">>,
            <<MONITORING_KEY_QUANT_ENCODE, "tensors", "bits">>,
            <<MONITORING_KEY_RECV, "Mbits", "acc">>,
            <<MONITORING_KEY_SEND, "Mbits", "acc">> >>
    ELSE << <<MONITORING_KEY_OUTPUT, "classifications", "confidence">>,
            <<MONITORING_KEY_QUANT_DECODE, "tensors", "bits">>,
            <<MONITORING_KEY_QUANT_ENCODE, "tensors", "bits">> >>

\* a wait for the count read at the start alone
WaitThreshold_start_only(count, n) == count

\* the argument of results_counter.wait_gte: start_count + len(inputs)
WaitThreshold(count, n) == count + n

InitPipeline ==
    /\ mpc = "init"
    /\ mi = 1
    /\ start_count = 0
    /\ label_queue = <<>>
    /\ pipeline = <<>>
    /\ hpc = [h \in Handlers |-> "idle"]
    /\ htask = [h \in Handlers |-> NoTask]
    /\ resulted = {}
    /\ stop_sent = FALSE

MainOnly == UNCHANGED <<cfg, label_queue, pipeline, hpc, htask, resulted, stop_sent>>

\* monitoring.init(MONITORING_KEY_MODEL, work_type='tensors', acc_type='layers')
MainInit ==
    /\ mpc = "init"
    /\ \E lib, o1, o2 \in BOOLEAN :
           init(MONITORING_KEY_MODEL, "tensors", "layers", lib, o1, o2)
    /\ mpc' = IF outcome' = "ok" THEN "add_key" ELSE "raised"
    /\ UNCHANGED <<mi, start_count>>
    /\ MainOnly
    /\ UNCHANGED <<cntVars, lockVars, cmdVars, ctlVars>>

\* monitoring.add_key(...), one call after the other
MainAddKey ==
    /\ mpc = "add_key"
    /\ LET call == AddKeyCalls[mi]
       IN  add_key(call[1], call[2], call[3])
    /\ mi' = mi + 1
    /\ mpc' = IF mi = Len(AddKeyCalls) THEN "iteration" ELSE "add_key"
    /\ UNCHANGED start_count
    /\ MainOnly
    /\ UNCHANGED <<cntVars, lockVars, cmdVars, ctlVars>>

\* if rank == data_rank: inputs, labels = load_inputs(...);
\* monitoring.iteration(MONITORING_KEY_OUTPUT, work=0, accuracy=0, safe=False)
MainIteration ==
    /\ mpc = "iteration"
    /\ ppc = "batch"
    /\ iteration(MainThread, MONITORING_KEY_OUTPUT, 0, FALSE)
    /\ mpc' = IF outcome' = "ok" THEN "start_count" ELSE "raised"
    /\ UNCHANGED <<mi, start_count>>
    /\ MainOnly
    /\ UNCHANGED <<cntVars, lockVars, cmdVars, ctlVars>>

\* start_count = results_counter.value
MainCallValue ==
    /\ mpc = "start_count"
    /\ Call(MainThread, "value: with", 0)
    /\ mpc' = "start_count: value"
    /\ UNCHANGED <<mi, start_count>>
    /\ MainOnly
    /\ UNCHANGED <<monVars, lockVars, cmdVars, ctlVars>>

MainValue ==
    /\ mpc = "start_count: value"
    /\ value(MainThread)
    /\ start_count' = _value
    /\ UNCHANGED <<mpc, mi>>
    /\ MainOnly
    /\ UNCHANGED <<monVars, lockVars, cmdVars, ctlVars>>

MainValueReturned ==
    /\ mpc = "start_count: value"
    /\ Return(MainThread)
    /\ mpc' = IF cfg.mode = "p2p" THEN "put_labels" ELSE "enqueue_batch"
    /\ UNCHANGED <<mi, start_count>>
    /\ MainOnly
    /\ UNCHANGED <<monVars, lockVars, cmdVars, ctlVars>>

\* for ubatch_labels in labels.split(ubatch_size): label_queue.put(ubatch_labels)
MainPutLabels ==
    /\ mpc = "put_labels"
    /\ label_queue' = label_queue \o Microbatches
    /\ mpc' = "enqueue_batch"
    /\ UNCHANGED <<cfg, mi, start_count, pipeline, hpc, htask, resulted, stop_sent>>
    /\ UNCHANGED <<monVars, cntVars, lockVars, cmdVars, ctlVars>>

\* stage_ctx.enqueue_batch(inputs, ubatch_size) / pipeline.enqueue_batch(...)
MainEnqueueBatch ==
    /\ mpc = "enqueue_batch"
    /\ pipeline' = pipeline \o Microbatches
    /\ mpc' = "wait_gte"
    /\ UNCHANGED <<cfg, mi, start_count, label_queue, hpc, htask, resulted, stop_sent>>
    /\ UNCHANGED <<monVars, cntVars, lockVars, cmdVars, ctlVars>>

\* results_counter.wait_gte(start_count + len(inputs))
MainCallWaitGte ==
    /\ mpc = "wait_gte"
    /\ Call(MainThread, "wait_gte: with", WaitThreshold(start_count, LenInputs))
    /\ mpc' = "wait_gte: call"
    /\ UNCHANGED <<mi, start_count>>
    /\ MainOnly
    /\ UNCHANGED <<monVars, lockVars, cmdVars, ctlVars>>

\* tok_data = time.time(): the end-to-end latency is taken
MainWaitGteReturned ==
    /\ mpc = "wait_gte: call"
    /\ Return(MainThread)
    /\ mpc' = "tok"
    /\ UNCHANGED <<mi, start_count>>
    /\ MainOnly
    /\ UNCHANGED <<monVars, lockVars, cmdVars, ctlVars>>

\* dist_ctx.cmd_broadcast(CMD_STOP); stop_event.set()   (run_pipeline_p2p only);
\* the main thread leaves the contexts and goes on to monitoring.finish()
MainStop ==
    /\ mpc = "tok"
    /\ stop_sent' = (cfg.mode = "p2p")
    /\ mpc' = "finish"
    /\ ppc' = "stopped"
    /\ stop_event' = IF cfg.mode = "p2p" THEN event_set(stop_event) ELSE stop_event
    /\ UNCHANGED <<cfg, mi, start_count, label_queue, pipeline, hpc, htask, resulted>>
    /\ UNCHANGED <<rank, data_rank, sched_q, sched, net, peer, cmdlog, received>>
    /\ UNCHANGED <<monVars, cntVars, lockVars, ctlVars>>

\* monitoring.finish()
MainFinish ==
    /\ mpc = "finish"
    /\ finish
    /\ mpc' = IF outcome' = "ok" THEN "done" ELSE "raised"
    /\ UNCHANGED <<mi, start_count>>
    /\ MainOnly
    /\ UNCHANGED <<cntVars, lockVars, cmdVars, ctlVars>>

\* the lock steps of the main thread's counter calls
MainCounterStep ==
    /\ cond_acquire(MainThread) \/ wait_gte(MainThread)
    /\ UNCHANGED <<monVars, pipeVars, lockVars, cmdVars, ctlVars>>

HandlerOnly(h) == UNCHANGED <<cfg, mpc, mi, start_count, resulted, stop_sent>>

RemoveAt(q, i) == [j \in 1..(Len(q) - 1) |-> IF j < i THEN q[j] ELSE q[j + 1]]

\* the transport delivers a result to handle_results: in order and one at a
\* time with P2P, in any order and on concurrent worker threads with RPC
Deliver(h) ==
    /\ hpc[h] = "idle"
    /\ pipeline # <<>>
    /\ cfg.mode = "p2p" => \A g \in Handlers : hpc[g] = "idle"
    /\ \E i \in DOMAIN pipeline :
           /\ cfg.mode = "p2p" => i = 1
           /\ htask' = [htask EXCEPT ![h] = [id |-> pipeline[i].id,
                                              n_items |-> pipeline[i].n_items,
                                              label |-> 0]]
           /\ pipeline' = RemoveAt(pipeline, i)
    /\ hpc' = [hpc EXCEPT ![h] = "empty?"]
    /\ UNCHANGED label_queue
    /\ HandlerOnly(h)
    /\ UNCHANGED <<monVars, cntVars, lockVars, cmdVars, ctlVars>>

\* a delivery that does not wait for the running handlers: results of either
\* transport reach handle_results on concurrent threads, P2P still in order
DeliverConcurrent(h) ==
    /\ hpc[h] = "idle"
    /\ pipeline # <<>>
    /\ \E i \in DOMAIN pipeline :
           /\ cfg.mode = "p2p" => i = 1
           /\ htask' = [htask EXCEPT ![h] = [id |-> pipeline[i].id,
                                              n_items |-> pipeline[i].n_items,
                                              label |-> 0]]
           /\ pipeline' = RemoveAt(pipeline, i)
    /\ hpc' = [hpc EXCEPT ![h] = "empty?"]
    /\ UNCHANGED label_queue
    /\ HandlerOnly(h)
    /\ UNCHANGED <<monVars, cntVars, lockVars, cmdVars, ctlVars>>

\* a handler that goes for the label without looking at the queue
HandleEmpty_unchecked(h) ==
    /\ hpc[h] = "empty?"
    /\ hpc' = [hpc EXCEPT ![h] = "get"]
    /\ UNCHANGED <<label_queue, pipeline, htask>>
    /\ HandlerOnly(h)
    /\ UNCHANGED <<monVars, cntVars, lockVars, cmdVars, ctlVars>>

\* if label_queue.empty():
HandleEmpty(h) ==
    /\ hpc[h] = "empty?"
    /\ hpc' = [hpc EXCEPT ![h] = IF label_queue = <<>> THEN "iteration" ELSE "get"]
    /\ UNCHANGED <<label_queue, pipeline, htask>>
    /\ HandlerOnly(h)
    /\ UNCHANGED <<monVars, cntVars, lockVars, cmdVars, ctlVars>>

\* a get that takes the item put last
queue_get_last(q) == [item |-> q[Len(q)], queue |-> SubSeq(q, 1, Len(q) - 1)]

\* queue.Queue.get() on a queue that holds an item: the item put first
queue_get(q) == [item |-> Head(q), queue |-> Tail(q)]

\* ubatch_labels = label_queue.get(); assert len(tensors) == len(ubatch_labels)
HandleGet(h) ==
    /\ hpc[h] = "get"
    /\ label_queue # <<>>
    /\ label_queue' = queue_get(label_queue).queue
    /\ htask' = [htask EXCEPT ![h].label = queue_get(label_queue).item.id]
    /\ hpc' = [hpc EXCEPT ![h] = IF queue_get(label_queue).item.n_items = htask[h].n_items
                                 THEN "iteration" ELSE "raised"]
    /\ UNCHANGED pipeline
    /\ HandlerOnly(h)
    /\ UNCHANGED <<monVars, cntVars, lockVars, cmdVars, ctlVars>>

\* monitoring.iteration(MONITORING_KEY_OUTPUT, work=n_items, accuracy=acc, safe=False)
HandleIteration(h) ==
    /\ hpc[h] = "iteration"
    /\ iteration(h, MONITORING_KEY_OUTPUT, htask[h].n_items, FALSE)
    /\ hpc' = [hpc EXCEPT ![h] = IF outcome' = "ok" THEN "add" ELSE "raised"]
    /\ UNCHANGED <<label_queue, pipeline, htask>>
    /\ HandlerOnly(h)
    /\ UNCHANGED <<cntVars, lockVars, cmdVars, ctlVars>>

\* results_counter.add(n_items)
HandleCallAdd(h) ==
    /\ hpc[h] = "add"
    /\ Call(h, "add: with", htask[h].n_items)
    /\ hpc' = [hpc EXCEPT ![h] = "add: call"]
    /\ UNCHANGED <<label_queue, pipeline, htask>>
    /\ HandlerOnly(h)
    /\ UNCHANGED <<monVars, lockVars, cmdVars, ctlVars>>

HandleAcquire(h) ==
    /\ cond_acquire(h)
    /\ UNCHANGED <<monVars, pipeVars, lockVars, cmdVars, ctlVars>>

HandleAdd(h) ==
    /\ hpc[h] = "add: call"
    /\ add(h)
    /\ resulted' = resulted \cup {htask[h].id}
    /\ UNCHANGED <<cfg, mpc, mi, start_count, label_queue, pipeline, hpc, htask, stop_sent>>
    /\ UNCHANGED <<monVars, lockVars, cmdVars, ctlVars>>

HandleReturned(h) ==
    /\ hpc[h] = "add: call"
    /\ Return(h)
    /\ hpc' = [hpc EXCEPT ![h] = "idle"]
    /\ htask' = [htask EXCEPT ![h] = NoTask]
    /\ UNCHANGED <<label_queue, pipeline>>
    /\ HandlerOnly(h)
    /\ UNCHANGED <<monVars, lockVars, cmdVars, ctlVars>>

NextPipeline ==
    \/ MainInit
    \/ MainAddKey
    \/ GetOrAwaitSchedule
    \/ StartStage
    \/ MainIteration
    \/ MainCallValue
    \/ MainValue
    \/ MainValueReturned
    \/ MainPutLabels
    \/ MainEnqueueBatch
    \/ MainCallWaitGte
    \/ MainWaitGteReturned
    \/ MainStop
    \/ MainFinish
    \/ MainCounterStep
    \/ \E h \in Handlers : Deliver(h)
    \/ \E h \in Handlers : HandleEmpty(h)
    \/ \E h \in Handlers : HandleGet(h)
    \/ \E h \in Handlers : HandleIteration(h)
    \/ \E h \in Handlers : HandleCallAdd(h)
    \/ \E h \in Handlers : HandleAcquire(h)
    \/ \E h \in Handlers : HandleAdd(h)
    \/ \E h \in Handlers : HandleReturned(h)

Configs ==
    [mode : {"p2p", "rpc"}, batch_size : 1..MaxBatch, ubatch_size : 1..MaxUbatch]

InitPipelineScenario ==
    /\ InitMonitoring
    /\ ~environ.set
    /\ InitCounter
    /\ InitPipeline
    /\ cfg \in Configs
    /\ InitLocks
    /\ InitCommands
    /\ InitController
    /\ rank = 0
    /\ data_rank = 0

SpecPipeline == InitPipelineScenario /\ [][NextPipeline]_vars

\* the pipeline with result handlers that overlap under either transport
NextPipelineConcurrent ==
    \/ MainInit
    \/ MainAddKey
    \/ GetOrAwaitSchedule
    \/ StartStage
    \/ MainIteration
    \/ MainCallValue
    \/ MainValue
    \/ MainValueReturned
    \/ MainPutLabels
    \/ MainEnqueueBatch
    \/ MainCallWaitGte
    \/ MainWaitGteReturned
    \/ MainStop
    \/ MainFinish
    \/ MainCounterStep
    \/ \E h \in Handlers : DeliverConcurrent(h)
    \/ \E h \in Handlers : HandleEmpty(h)
    \/ \E h \in Handlers : HandleGet(h)
    \/ \E h \in Handlers : HandleIteration(h)
    \/ \E h \in Handlers : HandleCallAdd(h)
    \/ \E h \in Handlers : HandleAcquire(h)
    \/ \E h \in Handlers : HandleAdd(h)
    \/ \E h \in Handlers : HandleReturned(h)

SpecPipelineConcurrent == InitPipelineScenario /\ [][NextPipelineConcurrent]_vars

\* the counter on its own
InitCounterScenario ==
    /\ InitMonitoring
    /\ ~environ.set
    /\ InitCounter
    /\ InitPipeline
    /\ cfg = NoRun
    /\ InitLocks
    /\ InitCommands
    /\ InitController
    /\ rank = 0
    /\ data_rank = 0

\* a call in progress keeps running: the interpreter schedules every runnable
\* thread, and a thread going for the free lock gets it eventually
CounterFairness ==
    \A t \in CounterThreads :
        /\ SF_vars(cond_acquire(t) /\ UNCHANGED <<monVars, pipeVars, lockVars, cmdVars, ctlVars>>)
        /\ WF_vars((value(t) \/ add(t) \/ wait_gte(t)) /\ UNCHANGED <<monVars, pipeVars, lockVars, cmdVars, ctlVars>>)

SpecCounter == InitCounterScenario /\ [][NextCounter]_vars /\ CounterFairness

\* a participant of a P2P run: its main thread, its command thread, its result
\* handlers and the commands of its peers
NextCommands ==
    \/ PeerBroadcastSched
    \/ PeerBroadcastStop
    \/ PeerSendUnknown
    \/ ReceiveCmd
    \/ MainInit
    \/ MainAddKey
    \/ GetOrAwaitSchedule
    \/ SchedGet
    \/ StartStage
    \/ MainIteration
    \/ MainCallValue
    \/ MainValue
    \/ MainValueReturned
    \/ MainPutLabels
    \/ MainEnqueueBatch
    \/ MainCallWaitGte
    \/ MainWaitGteReturned
    \/ MainStop
    \/ StopEventWait
    \/ MainFinish
    \/ MainCounterStep
    \/ \E h \in Handlers : Deliver(h)
    \/ \E h \in Handlers : HandleEmpty(h)
    \/ \E h \in Handlers : HandleGet(h)
    \/ \E h \in Handlers : HandleIteration(h)
    \/ \E h \in Handlers : HandleCallAdd(h)
    \/ \E h \in Handlers : HandleAcquire(h)
    \/ \E h \in Handlers : HandleAdd(h)
    \/ \E h \in Handlers : HandleReturned(h)

\* a participant of a P2P run of any rank, with any data rank argument
InitCommandsScenario ==
    /\ InitMonitoring
    /\ ~environ.set
    /\ InitCounter
    /\ InitPipeline
    /\ cfg = NoRun
    /\ InitLocks
    /\ InitCommands
    /\ InitController
    /\ rank \in Ranks
    /\ data_rank \in Ranks

\* the command thread and the main thread keep running
CommandsFairness ==
    /\ WF_vars(ReceiveCmd)
    /\ WF_vars(GetOrAwaitSchedule)
    /\ WF_vars(SchedGet)
    /\ WF_vars(StartStage)
    /\ WF_vars(StopEventWait)

SpecCommands == InitCommandsScenario /\ [][NextCommands]_vars /\ CommandsFairness

\* ---------------------------------------------------------- specifications
Init ==
    /\ InitMonitoring
    /\ InitCounter
    /\ InitPipeline
    /\ cfg = NoRun
    /\ InitLocks
    /\ InitCommands
    /\ InitController
    /\ rank = 0
    /\ data_rank = 0

RECURSIVE SumOver(_, _)
SumOver(f, S) == IF S = {} THEN 0
                 ELSE LET k == CHOOSE x \in S : TRUE
                      IN  f[k] + SumOver(f, S \ {k})

\* a completion is offered while the scenario's budget of completions lasts
Budget(maxIter) == SumOver(completed, AllKeys) < maxIter

DoInit(K) ==
    /\ \E key \in K, wt \in WorkLabels, at \in AccLabels, lib, o1, o2 \in BOOLEAN :
           init(key, wt, at, lib, o1, o2)
    /\ UNCHANGED <<cntVars, pipeVars, lockVars, cmdVars, ctlVars>>

DoAddKey(K) ==
    /\ \E key \in K, wt \in WorkLabels, at \in AccLabels : add_key(key, wt, at)
    /\ UNCHANGED <<cntVars, pipeVars, lockVars, cmdVars, ctlVars>>

DoIterationStart(T, K) ==
    /\ \E t \in T, key \in K : iteration_start(t, key)
    /\ UNCHANGED <<cntVars, pipeVars, lockVars, cmdVars, ctlVars>>

DoIteration(T, K, W, maxIter) ==
    /\ Budget(maxIter)
    /\ \E t \in T, key \in K, work \in W, safe \in BOOLEAN : iteration(t, key, work, safe)
    /\ UNCHANGED <<cntVars, pipeVars, lockVars, cmdVars, ctlVars>>

DoFinish == finish /\ UNCHANGED <<cntVars, pipeVars, lockVars, cmdVars, ctlVars>>

NextMonitoring(T, K, W, maxIter) ==
    \/ DoInit(K)
    \/ DoAddKey(K)
    \/ DoIterationStart(T, K)
    \/ DoIteration(T, K, W, maxIter)
    \/ DoFinish

\* two threads sharing two keys
Next == NextMonitoring(Threads, Keys, Work, MaxIter)

Spec == Init /\ [][Next]_vars

\* one thread reporting one key for more than a default window
NextWindow == NextMonitoring({"T1"}, {MONITORING_KEY_MODEL}, {MaxWork}, MaxIterLong)

SpecWindow == Init /\ [][NextWindow]_vars

\* two threads sharing one key
NextSpans == NextMonitoring(Threads, {MONITORING_KEY_MODEL}, Work, MaxIter)

SpecSpans == Init /\ [][NextSpans]_vars

CallOperation(T, K, maxIter) ==
    /\ \E t \in T, op \in Operations, key \in K :
           /\ op = "iteration" => Budget(maxIter)
           /\ op_call(t, op, key)
    /\ UNCHANGED <<monVars, cntVars, pipeVars, cmdVars, ctlVars>>

AcquireLock(T) ==
    /\ \E t \in T : op_acquire(t)
    /\ UNCHANGED <<monVars, cntVars, pipeVars, cmdVars, ctlVars>>

RunOperation(T) ==
    /\ \E t \in T : op_body(t)
    /\ UNCHANGED <<cntVars, pipeVars, cmdVars, ctlVars>>

IterationStartEnter(T) ==
    /\ \E t \in T : op_iteration_start_enter(t)
    /\ UNCHANGED <<cntVars, pipeVars, cmdVars, ctlVars>>

IterationStartPush(T) ==
    /\ \E t \in T : op_iteration_start_push(t)
    /\ UNCHANGED <<cntVars, pipeVars, cmdVars, ctlVars>>

IterationRead(T) ==
    /\ \E t \in T : op_iteration_read(t)
    /\ UNCHANGED <<cntVars, pipeVars, cmdVars, ctlVars>>

IterationReport(T, W) ==
    /\ \E t \in T : op_iteration_report(t, W)
    /\ UNCHANGED <<cntVars, pipeVars, cmdVars, ctlVars>>

ReleaseLock(T) ==
    /\ \E t \in T : op_release(t)
    /\ UNCHANGED <<cntVars, pipeVars, cmdVars, ctlVars>>

\* two threads calling the public operations on one key, every step of a
\* call a step of its own
NextLocks ==
    \/ CallOperation(Threads, {MONITORING_KEY_MODEL}, MaxIter)
    \/ AcquireLock(Threads)
    \/ RunOperation(Threads)
    \/ IterationStartEnter(Threads)
    \/ IterationStartPush(Threads)
    \/ IterationRead(Threads)
    \/ IterationReport(Threads, {MaxWork})
    \/ ReleaseLock(Threads)

SpecLocks == Init /\ [][NextLocks]_vars

\* every runnable thread is scheduled, and a thread going for the lock gets it
\* if the lock is free again and again
LocksFairness ==
    \A t \in Threads :
        /\ SF_vars(AcquireLock({t}))
        /\ WF_vars(RunOperation({t}))
        /\ WF_vars(IterationStartEnter({t}))
        /\ WF_vars(IterationStartPush({t}))
        /\ WF_vars(IterationRead({t}))
        /\ WF_vars(IterationReport({t}, {MaxWork}))
        /\ WF_vars(ReleaseLock({t}))

SpecLocksFair == SpecLocks /\ LocksFairness

\* a controller is constructed from any legal configuration and then called
ConstructController ==
    ControllerInit /\ UNCHANGED <<monVars, cntVars, pipeVars, lockVars, cmdVars>>

CallController ==
    ControllerCall /\ UNCHANGED <<monVars, cntVars, pipeVars, lockVars, cmdVars>>

ReturnController ==
    ControllerReturn /\ UNCHANGED <<monVars, cntVars, pipeVars, lockVars, cmdVars>>

NextController ==
    \/ ConstructController
    \/ CallController
    \/ ReturnController

SpecController == Init /\ [][NextController]_vars


\* ------------------------------------------------------------------ claims
HasSpan(ident, key) == ident \in DOMAIN _thr_ctx /\ key \in DOMAIN _thr_ctx[ident]

Live == _monitor_ctx # None

\* C1: iteration_start(key) on a thread that already has an open span for the
\* key fails with the collision error and leaves every thread's span map,
\* the open span included, exactly as it was.
C1_CollisionKeepsSpan ==
    [][\A t \in Threads, k \in Keys :
          (Live /\ HasSpan(t, k) /\ iteration_start(t, k))
          => (outcome' = "KeyError: collision" /\ _thr_ctx' = _thr_ctx)]_vars

\* a collision was raised on a span that is older than the key's last heartbeat
C1_Witness ==
    /\ lastOp = "iteration_start"
    /\ outcome = "KeyError: collision"
    /\ \E t \in Threads, k \in Keys :
          HasSpan(t, k) /\ _thr_ctx[t][k].t_start < _monitor_ctx.hb[k].count

\* C2: whatever the interleaving of the threads' starts and completions, the
\* global work of every key is the sum of the work of its completed iterations.
C2_GlobalWorkIsSum ==
    Live => \A k \in MetricKeys(_monitor_ctx) :
                MetricGlobalWork(_monitor_ctx, k) = reported[k]

\* T2 opened its span after T1 and completed first (a timed completion with
\* work while T1's older span is still open), or the other way round
C2_Witness ==
    /\ Live
    /\ \E t \in Threads, k \in Keys :
          /\ HasSpan(t, k)
          /\ _thr_ctx[t][k].t_start = 0
          /\ _monitor_ctx.hb[k].count = 1
          /\ _monitor_ctx.hb[k].timed
          /\ reported[k] = 1

\* the completions of a key that close a window of the registry's window size
WindowClosers(k) ==
    {n \in 1..completed[k] : n - 1 > 0 /\ n % _monitor_ctx.window_size = 0}

\* C3: the window log fires on exactly the completions whose tag is positive
\* and closes a window of the registry's window size: once every window_size
\* completions, never on the initializing one.
C3_WindowEveryWindowSize ==
    (Live /\ _monitor_ctx.opened) =>
        \A k \in MetricKeys(_monitor_ctx) : windowLogAt[k] = WindowClosers(k)

\* C4: with the window size overridden to 4 and 9 completions of work 1 on
\* "shard", the window was logged after the 4th and the 8th completion only,
\* and finish() reports a global work of 9.
C4_OverrideScenario ==
    [][(/\ Live
        /\ _monitor_ctx.window_size = 4
        /\ completed[MONITORING_KEY_MODEL] = 9
        /\ reported[MONITORING_KEY_MODEL] = 9
        /\ finish)
       => (/\ windowLogAt[MONITORING_KEY_MODEL] = {4, 8}
           /\ LogRecord("global", MONITORING_KEY_MODEL, 9) \in log')]_vars

\* C8: a strict iteration() on a thread without an open span for the key fails
\* with a KeyError, changes no accumulator, tag or span and logs nothing.
C8_StrictWithoutSpanFails ==
    [][\A t \in Threads, k \in Keys, w \in Work :
          (Live /\ ~HasSpan(t, k) /\ iteration(t, k, w, TRUE))
          => (/\ outcome' = IF k \in DOMAIN _locks THEN "KeyError: no context"
                            ELSE "KeyError: locks"
              /\ _monitor_ctx' = _monitor_ctx
              /\ _thr_ctx' = _thr_ctx
              /\ log' = {}
              /\ UnchangedHistory)]_vars

\* the strict call failed on a key that already has heartbeats
C8_Witness ==
    /\ lastOp = "iteration"
    /\ outcome = "KeyError: no context"
    /\ \E k \in MetricKeys(_monitor_ctx) : _monitor_ctx.hb[k].count > 0

\* C9: a non-strict iteration() of a registered key on a thread without an open
\* span returns normally, untimed: the tag advances by one, the instant work is
\* the reported work, the window and global work grow by it (the window
\* restarting with it at a window's first heartbeat), and no span is touched.
C9_NonStrictWithoutSpanReports ==
    [][\A t \in Threads, k \in Keys, w \in Work :
          (Live /\ k \in DOMAIN _locks /\ ~HasSpan(t, k) /\ iteration(t, k, w, FALSE))
          => LET m == _monitor_ctx.hb[k]
                 n == _monitor_ctx'.hb[k]
             IN  /\ outcome' = "ok"
                 /\ n.count = m.count + 1
                 /\ n.instant_work = w
                 /\ n.window_work \in {w, m.window_work + w}
                 /\ n.global_work = m.global_work + w
                 /\ ~n.timed
                 /\ _thr_ctx' = _thr_ctx]_vars

\* an untimed completion with work was the last heartbeat of a key, after
\* another heartbeat of the same key
C9_Witness ==
    /\ lastOp = "iteration"
    /\ outcome = "ok"
    /\ Live
    /\ \E k \in MetricKeys(_monitor_ctx) :
          /\ _monitor_ctx.hb[k].count = 2
          /\ ~_monitor_ctx.hb[k].timed
          /\ _monitor_ctx.hb[k].instant_work = 1
          /\ _monitor_ctx.hb[k].global_work = 2

\* C10: on an absent registry add_key, iteration_start, iteration and finish
\* return normally and change nothing of the registry.
C10_AbsentRegistryNoOps ==
    [][(/\ ~Live
        /\ \/ finish
           \/ \E k \in Keys, wt \in WorkLabels, at \in AccLabels : add_key(k, wt, at)
           \/ \E t \in Threads, k \in Keys : iteration_start(t, k)
           \/ \E t \in Threads, k \in Keys, w \in Work, safe \in BOOLEAN :
                 iteration(t, k, w, safe))
       => (outcome' = "ok" /\ log' = {} /\ UnchangedRegistry /\ UnchangedHistory)]_vars

\* a call other than init or finish returned on an absent registry
C10_Witness ==
    /\ ~Live
    /\ lastOp \in {"add_key", "iteration_start", "iteration"}
    /\ outcome = "ok"
    /\ _thr_ctx = EmptyMap /\ _locks = EmptyMap
    /\ _work_types = EmptyMap /\ _acc_types = EmptyMap

\* C5: a wait_gte(N) called when the counter is already at N or more never
\* waits on the condition: it goes through the loop test once and returns.
C5_WaitGteReadyNeverWaits ==
    \A t \in CounterThreads :
        ready[t] => (~blocked[t] /\ cpc[t] # "wait: waiting")

\* a wait_gte for a positive threshold the counter had reached has returned
C5_Witness ==
    /\ cpc[MainThread] = "returned"
    /\ carg[MainThread] >= 1
    /\ ready[MainThread]
    /\ ~blocked[MainThread]

\* C6: under fair scheduling a thread inside wait_gte(N) returns once the
\* counter is at N or more: no wakeup of an add is missed.
C6_NoMissedWakeup ==
    \A t \in CounterThreads :
        (InWaitGte(t) /\ _value >= carg[t]) ~> (cpc[t] = "returned")

\* a wait_gte that had to wait on the condition has returned, after two adds
C6_Witness ==
    /\ cpc[MainThread] = "returned"
    /\ carg[MainThread] >= 1
    /\ blocked[MainThread]
    /\ _value >= carg[MainThread]
    /\ \A h \in Handlers : cpc[h] = "returned"

WaitGteReturned == mpc \in {"tok", "finish", "done"}

\* C7: on the data-owning participant wait_gte(start_count + len(inputs))
\* has returned only when result handling has added the items of every
\* submitted microbatch to the counter since start_count was read; the
\* latency is taken and Stop is broadcast only then.
C7_WaitCoversAllResults ==
    (WaitGteReturned \/ stop_sent) =>
        /\ _value - start_count >= LenInputs
        /\ resulted = {Microbatches[i].id : i \in DOMAIN Microbatches}
        /\ pipeline = <<>>

\* Stop was broadcast after the results of two microbatches were counted
C7_Witness ==
    /\ stop_sent
    /\ mpc = "done"
    /\ Cardinality(resulted) = 2
    /\ _value = start_count + LenInputs

\* the registry was created and its open() succeeded
Opened == Live /\ _monitor_ctx.opened

\* C11: finish() on a live registry returns normally, logs exactly one global
\* record for every known key and nothing else, closes the context (one more
\* close() call, none opened) and leaves the registry absent with no lock,
\* label or span of any thread; finish() on the absent registry it leaves
\* behind changes nothing, closes nothing and logs nothing.
C11_FinishLogsAndClears ==
    [][finish =>
          /\ Live =>
                /\ outcome' = "ok"
                /\ probe' = [opens |-> probe.opens, closes |-> probe.closes + 1]
                /\ \A k \in MetricKeys(_monitor_ctx) :
                      /\ _log_global(_monitor_ctx, k) \in log'
                      /\ Cardinality({r \in log' : r.key = k}) = 1
                /\ \A r \in log' : r.kind = "global" /\ r.key \in MetricKeys(_monitor_ctx)
                /\ _monitor_ctx' = None
                /\ _thr_ctx' = EmptyMap
                /\ _locks' = EmptyMap
                /\ _work_types' = EmptyMap
                /\ _acc_types' = EmptyMap
          /\ ~Live => (outcome' = "ok" /\ log' = {} /\ UnchangedRegistry
                       /\ probe' = probe)]_vars

\* C12: init degrades in a fixed order. Without the energy library the
\* registry is created without energy metrics, a warning is logged and init
\* goes on to open(). If open() fails, the registry is recreated without an
\* energy probe and open() is tried once more; init succeeds if that open()
\* does, and raises the error of the second open() otherwise.
C12_InitDegradesInOrder ==
    [][\A k \in Keys, wt \in WorkLabels, at \in AccLabels, lib, o1, o2 \in BOOLEAN :
          init(k, wt, at, lib, o1, o2) =>
             LET c == _monitor_ctx'
                 retried == LogRecord("warning: retry without energy", k, 0) \in log'
             IN  /\ c.exists
                 /\ ~lib => /\ LogRecord("warning: no energymon library", k, 0) \in log'
                            /\ ~c.energy
                 /\ o1 => /\ outcome' = "ok"
                          /\ c.opened
                          /\ c.energy = lib
                          /\ ~retried
                 /\ ~o1 => (retried /\ ~c.energy)
                 /\ (~o1 /\ o2) => /\ outcome' = "ok"
                                   /\ c.opened
                                   /\ k \in DOMAIN _locks'
                 /\ (~o1 /\ ~o2) => (outcome' = "OSError" /\ ~c.opened)]_vars

\* init succeeded on the retried open(), on a registry without energy metrics
C12_Witness ==
    /\ lastOp = "init"
    /\ outcome = "ok"
    /\ Opened
    /\ ~_monitor_ctx.energy
    /\ \E k \in Keys :
          /\ LogRecord("info: energy source", k, 0) \in log
          /\ LogRecord("warning: retry without energy", k, 0) \in log
          /\ k \in DOMAIN _locks

\* C13: add_key, iteration_start, iteration and finish never find a registry
\* that exists without having been opened or that holds a key without a lock
\* and labels.
C13_NoHalfInitializedRegistry ==
    [][(\/ finish
        \/ \E k \in Keys, wt \in WorkLabels, at \in AccLabels : add_key(k, wt, at)
        \/ \E t \in Threads, k \in Keys : iteration_start(t, k)
        \/ \E t \in Threads, k \in Keys, w \in Work, safe \in BOOLEAN :
              iteration(t, k, w, safe))
       => (Live => /\ _monitor_ctx.opened
                   /\ \A k \in MetricKeys(_monitor_ctx) :
                         /\ k \in DOMAIN _locks
                         /\ k \in DOMAIN _work_types
                         /\ k \in DOMAIN _acc_types)]_vars

\* C15: a completion whose tag is 0 logs nothing; a completion whose tag is
\* greater than 0 logs the instant fields of its key; a completion logs
\* instant and window records only.
C15_NoLogAtTagZero ==
    [][\A t \in Threads, k \in Keys, w \in Work, safe \in BOOLEAN :
          (/\ Live
           /\ k \in DOMAIN _locks
           /\ iteration(t, k, w, safe)
           /\ outcome' = "ok")
          => LET tag == _monitor_ctx.hb[k].count
             IN  /\ tag = MetricGetTag(_monitor_ctx', k)
                 /\ tag = 0 => log' = {}
                 /\ tag > 0 => _log_instant(_monitor_ctx', k) \in log'
                 /\ \A r \in log' : r.kind \in {"instant", "window"} /\ r.key = k]_vars

\* the completion with tag 9 logged the instant and the window fields
C15_Witness ==
    /\ lastOp = "iteration"
    /\ outcome = "ok"
    /\ Live
    /\ MetricGetTag(_monitor_ctx, MONITORING_KEY_MODEL) = 9
    /\ \E r \in log : r.kind = "instant"
    /\ \E r \in log : r.kind = "window"

\* C14: at most one thread at a time is inside a public registry operation,
\* and the MetricState a completion started from is still the key's
\* MetricState when the completion reports: no other thread's operation on
\* the key falls between its read and its write.
C14_OperationsMutuallyExclusive ==
    /\ Cardinality({t \in Threads : InOperation(t)}) <= 1
    /\ \A t \in Threads :
          InOperation(t) => _monitor_ctx_lock = t
    /\ \A t \in Threads :
          opc[t] = "iteration: report" =>
              snap[t] = MetricStateOf(_monitor_ctx, pend[t].key)

\* a completion is about to report on a key that already has a heartbeat while
\* the other thread waits for the lock with a completion of the same key
C14_Witness ==
    \E t, u \in Threads :
        /\ t # u
        /\ opc[t] = "iteration: report"
        /\ snap[t] # NoSnap
        /\ snap[t].count >= 1
        /\ opc[u] = "with _monitor_ctx_lock"
        /\ pend[u] = [op |-> "iteration", key |-> pend[t].key]

\* the state of a participant: where its main thread is
PState ==
    IF ppc \in {"start", "sched_q.get"} THEN "AwaitingSchedule"
    ELSE IF ppc = "stopped" THEN "Stopped"
    ELSE "Running"

PStateOrder(state) ==
    IF state = "AwaitingSchedule" THEN 1 ELSE IF state = "Running" THEN 2 ELSE 3

\* handle_cmd has been called with the CMD_STOP a peer broadcast
StopReceived == peer.stop /\ Command(CMD_STOP, <<>>) \notin net

\* C16: once a Stop command has been handled the stop flag is set for good,
\* and the participant, awaiting its schedule or running, gets to Stopped:
\* its main thread leaves stop_event.wait().
C16_StopLeadsToStopped ==
    /\ [](StopReceived => stop_event)
    /\ \A state \in {"AwaitingSchedule", "Running"} :
          (StopReceived /\ PState = state) ~> (PState = "Stopped")

\* the Stop command was handled while the participant awaited its schedule
C16_WitnessAwaiting ==
    /\ StopReceived
    /\ stop_event
    /\ ppc = "sched_q.get"
    /\ sched_q = <<>>

\* C17: a participant of rank other than 0 leaves AwaitingSchedule only by
\* taking a received schedule from sched_q and then runs with the layers,
\* quantization, ranks and data rank rank 0 broadcast; its state goes from
\* AwaitingSchedule to Running to Stopped, never back and never past Running.
C17_ScheduleBeforeRunning ==
    [][rank # 0 =>
          /\ PStateOrder(PState') >= PStateOrder(PState)
          /\ PStateOrder(PState') <= PStateOrder(PState) + 1
          /\ (PState = "AwaitingSchedule" /\ PState' = "Running") =>
                /\ received # <<>>
                /\ <<sched'[1], sched'[2], sched'[3], data_rank'>> = received[1]
                /\ received[1] = peer.sched
          /\ PState # "AwaitingSchedule" =>
                (sched' = sched /\ data_rank' = data_rank)]_vars

\* a participant of rank 2 that a two-stage schedule names as the data rank
\* has run and stopped
C17_Witness ==
    /\ rank = MaxRank
    /\ ppc = "stopped"
    /\ peer.sched # NoSched
    /\ sched = <<peer.sched[1], peer.sched[2], peer.sched[3]>>
    /\ Len(sched[3]) = 2
    /\ data_rank = peer.sched[4]
    /\ data_rank = rank

\* the schedules the main thread has taken from sched_q
Taken == IF rank # 0 /\ PState # "AwaitingSchedule" THEN 1 ELSE 0

\* C18: a handled Stop sets the stop flag; a handled ScheduleBroadcast goes to
\* sched_q, which never holds more than one schedule; every schedule queued is
\* taken by the main thread, once.
C18_StopToFlagSchedToQueue ==
    /\ [](StopReceived => stop_event)
    /\ [](Len(sched_q) <= 1)
    /\ [](Len(received) = Len(sched_q) + Taken)
    /\ (Len(sched_q) = 1) ~> (Len(sched_q) = 0 /\ Taken = 1)

\* the one schedule received was taken and a Stop has set the flag
C18_Witness ==
    /\ Len(received) = 1
    /\ sched_q = <<>>
    /\ Taken = 1
    /\ StopReceived
    /\ stop_event

\* C19: handle_cmd with a command kind other than CMD_STOP and CMD_SCHED logs
\* a warning and leaves the stop flag and sched_q as they are.
C19_UnknownCommandIgnored ==
    [][\A c \in net :
          (c.cmd \notin {CMD_STOP, CMD_SCHED} /\ handle_cmd(c.cmd, c.tensors))
          => /\ cmdlog' = "warning: handle_cmd: Unknown command"
             /\ UNCHANGED <<stop_event, sched_q, received>>]_vars

\* an unknown command was handled by a participant that awaits its schedule,
\* with the flag clear and the queue empty
C19_Witness ==
    /\ cmdlog = "warning: handle_cmd: Unknown command"
    /\ peer.unknown = 1
    /\ net = {}
    /\ ~stop_event
    /\ sched_q = <<>>
    /\ ppc = "sched_q.get"

\* the labels the result handlers have taken from label_queue
LabelsTaken == resulted \cup ({htask[h].label : h \in Handlers} \ {0})

\* C20: with in-order delivery (P2P) a result is paired with the label of its
\* own microbatch, the k-th submitted; the labels are taken in submission
\* order, each once, so that label_queue holds exactly the labels of the
\* microbatches not yet handled and is empty when all have produced results.
C20_LabelsPairedInOrder ==
    cfg.mode = "p2p" =>
        /\ \A h \in Handlers :
              /\ hpc[h] # "raised"
              /\ htask[h].label # 0 => htask[h].label = htask[h].id
        /\ LabelsTaken = 1..Cardinality(LabelsTaken)
        /\ label_queue =
              IF mpc \in {"init", "add_key", "iteration", "start_count",
                          "start_count: value", "put_labels", "raised"}
              THEN <<>>
              ELSE SubSeq(Microbatches, Cardinality(LabelsTaken) + 1, Len(Microbatches))
        /\ (mpc \notin {"init", "raised"}
            /\ resulted = {Microbatches[i].id : i \in DOMAIN Microbatches})
           => label_queue = <<>>

\* the third of three results was paired with the third label, after the
\* first two, and the queue is empty
C20_Witness ==
    /\ cfg.mode = "p2p"
    /\ Len(Microbatches) = 3
    /\ resulted = {1, 2, 3}
    /\ \E h \in Handlers : htask[h].id = 3 /\ htask[h].label = 3
    /\ label_queue = <<>>

\* the indices of the speedups that do not exceed the target of the last call
Qualifying ==
    {i \in 0..(Len(controller._speedups) - 1) :
        RLe(controller._speedups[i + 1], locals.xup_targ)}

MaxOf(S) == CHOOSE i \in S : \A j \in S : j <= i

LastIndex == Len(controller._speedups) - 1

\* C21: a call selects as idx_slow the largest index whose speedup does not
\* exceed the target, 0 when no speedup qualifies, and as idx_fast the next
\* index capped at the last one; the two bitwidths returned are those of the
\* two indices, equal or adjacent in the descending list, the slow one not
\* below the fast one.
C21_SlowFastBracket ==
    locals.called =>
        /\ locals.idx_slow = (IF Qualifying = {} THEN 0 ELSE MaxOf(Qualifying))
        /\ locals.idx_fast =
               (IF locals.idx_slow + 1 < LastIndex THEN locals.idx_slow + 1
                ELSE LastIndex)
        /\ ret[1] = controller._bitwidths[locals.idx_slow + 1]
        /\ ret[2] = controller._bitwidths[locals.idx_fast + 1]
        /\ locals.idx_fast - locals.idx_slow \in {0, 1}
        /\ ret[1] >= ret[2]

C21_WitnessInnerBracket ==
    /\ locals.called
    /\ Len(controller._bitwidths) = 4
    /\ locals.idx_slow = 1
    /\ locals.idx_fast = 2
    /\ RLt(locals.xup_slow, locals.xup_targ)
    /\ ret[1] > ret[2]

RAdd(a, b) == Rat(a.n * b.d + b.n * a.d, a.d * b.d)

\* the exact product window_len * _x of the last call
ExactIterations == RMul(float(locals.window_len), locals._x)

\* C22: when the target lies between two distinct candidate speedups, the
\* fraction x = slow * (fast - t) / (t * (fast - slow)) lies in [0, 1] and
\* solves the harmonic relation 1/t = x/slow + (1 - x)/fast, and the returned
\* count is window_len * x rounded to a nearest integer; with bitwidths
\* [8, 4, 2, 1] and a target equal to the speedup of bitwidth 4 the pair is
\* (4, 2) with the whole window at bitwidth 4.
C22_HarmonicSplit ==
    /\ (/\ locals.called
        /\ ~isclose(locals.xup_slow, locals.xup_fast)
        /\ RLe(locals.xup_slow, locals.xup_targ)
        /\ RLe(locals.xup_targ, locals.xup_fast))
       => /\ RAdd(RDiv(locals._x, locals.xup_slow),
                  RDiv(RSub(float(1), locals._x), locals.xup_fast))
               = RDiv(float(1), locals.xup_targ)
          /\ RLe(float(0), locals._x)
          /\ RLe(locals._x, float(1))
          /\ RLe(RAbs(RSub(float(ret[3]), ExactIterations)), Rat(1, 2))
    /\ (/\ locals.called
        /\ controller._bitwidths = <<8, 4, 2, 1>>
        /\ locals.xup_targ = float(2))
       => ret = <<4, 2, locals.window_len>>

C22_WitnessRoundedSplit ==
    /\ locals.called
    /\ controller._bitwidths = <<8, 4, 2, 1>>
    /\ RLt(locals.xup_slow, locals.xup_targ)
    /\ RLt(locals.xup_targ, locals.xup_fast)
    /\ ExactIterations.d > 1
    /\ ret[3] > 0
    /\ ret[3] < locals.window_len

\* C23: whenever the two candidate speedups of a call are equal, as with a
\* single legal bitwidth or a target at or above the fastest speedup, the
\* split fraction is 0 and the call returns 0 iterations at the slow bitwidth.
C23_EqualCandidatesNoSlow ==
    locals.called =>
        /\ (\/ Len(controller._bitwidths) = 1
            \/ RLe(controller._speedups[LastIndex + 1], locals.xup_targ))
           => locals.xup_slow = locals.xup_fast
        /\ locals.xup_slow = locals.xup_fast
           => /\ locals.degenerate
              /\ locals._x = float(0)
              /\ ret[3] = 0

C23_WitnessAtFastest ==
    /\ locals.called
    /\ Len(controller._bitwidths) > 1
    /\ locals.xup_targ = controller.u_max
    /\ locals.idx_slow = LastIndex
    /\ locals.window_len > 0
    /\ ret[3] = 0

\* C25: the count of iterations at the slow bitwidth a call returns lies
\* between 0 and window_len, whatever the target and the rounding: the split
\* fraction of every call is between 0 and 1.
C25_IterationsWithinWindow ==
    locals.called =>
        /\ 0 <= ret[3] /\ ret[3] <= locals.window_len
        /\ RLe(float(0), locals._x) /\ RLe(locals._x, float(1))

\* a call with the target at the slowest speedup of several spends the whole
\* window at the slow bitwidth, and a product just below a whole number of
\* iterations was rounded up to it
C25_WitnessWholeWindow ==
    /\ locals.called
    /\ Len(controller._bitwidths) > 1
    /\ ~locals.degenerate
    /\ locals.window_len = MaxWindowLen
    /\ \/ locals.xup_targ = float(1) /\ ret[3] = locals.window_len
       \/ /\ ExactIterations.d > 1
          /\ RLt(float(locals.window_len - 1), ExactIterations)
          /\ ret[3] = locals.window_len

\* C26: a construction with an empty or a duplicated bitwidth list is rejected
\* at construction, so that every constructed controller has a non-empty
\* duplicate-free bitwidth list sorted descending, with speedups[0] = 1.0 and
\* non-decreasing speedups.
C26_ConfigurationRejected ==
    controller.constructed =>
        LET bw == controller._bitwidths
            sp == controller._speedups
        IN  /\ bw # <<>>
            /\ \A i, j \in 1..Len(bw) : i < j => bw[i] > bw[j]
            /\ sp[1] = float(1)
            /\ \A i, j \in 1..Len(sp) : i < j => RLe(sp[i], sp[j])

\* C27: a completion on one thread never consumes or alters the span another
\* thread holds for the same key: without a span of its own it fails in strict
\* mode and reports untimed otherwise, and the other thread's span stays as it
\* was; the completion of the thread that opened the span finds it, reports
\* timed and removes it, so that a span is consumed once.
C27_SpanConsumedByOwnerOnly ==
    [][lastOp' = "iteration" =>
       \A a \in Threads, k \in Keys, w \in Work, safe \in BOOLEAN :
          /\ \A b \in Threads \ {a} :
                (Live /\ HasSpan(a, k) /\ iteration(b, k, w, safe))
                => /\ HasSpan(a, k)'
                   /\ _thr_ctx'[a] = _thr_ctx[a]
                   /\ (~HasSpan(b, k) /\ safe)
                      => (outcome' = "KeyError: no context"
                          /\ _monitor_ctx' = _monitor_ctx)
                   /\ (~HasSpan(b, k) /\ ~safe)
                      => (outcome' = "ok" /\ ~_monitor_ctx'.hb[k].timed)
          /\ (Live /\ HasSpan(a, k) /\ iteration(a, k, w, safe))
             => /\ outcome' = "ok"
                /\ _monitor_ctx'.hb[k].timed
                /\ ~HasSpan(a, k)'
                /\ \A b \in Threads \ {a} :
                      HasSpan(b, k) => (HasSpan(b, k)' /\ _thr_ctx'[b] = _thr_ctx[b])]_vars

\* a thread still holds the span it opened for a key after another thread's
\* completion issued an untimed heartbeat of that key
C27_WitnessForeignCompletion ==
    /\ Live
    /\ \E a \in Threads, k \in Keys :
          /\ HasSpan(a, k)
          /\ _thr_ctx[a][k].t_start < _monitor_ctx.hb[k].count
          /\ ~_monitor_ctx.hb[k].timed
          /\ \A b \in Threads \ {a} : ~HasSpan(b, k)

\* the span map of a thread, empty when the thread has none
SpanMap(thr_ctx, t) == IF t \in DOMAIN thr_ctx THEN thr_ctx[t] ELSE EmptyMap

\* C29: the span map of a thread is created, modified and removed only by
\* the registry operations that thread executes: an operation executed by
\* another thread, finish included, leaves it as it is.
C29_SpanMapOwnedByThread ==
    [][\A t \in Threads :
          (InOperation(t) /\ opc'[t] # opc[t])
          => \A u \in Threads \ {t} :
                /\ (u \in DOMAIN _thr_ctx') = (u \in DOMAIN _thr_ctx)
                /\ SpanMap(_thr_ctx', u) = SpanMap(_thr_ctx, u)]_vars

\* C30: in a lifetime of the registry open() succeeds at most once and close()
\* is called at most once, on the context that was opened; both calls are made
\* by a thread that holds _monitor_ctx_lock; an opened context leaves the
\* registry only through close(), so that once the registry is gone every
\* context that was opened has been closed, exactly once.
C30_ProbeOpenedAndClosedOnce ==
    /\ [](/\ probe.opens <= 1
          /\ probe.closes <= probe.opens
          /\ Opened => probe = [opens |-> 1, closes |-> 0]
          /\ ~Live => probe.closes = probe.opens)
    /\ [][/\ probe' # probe
             => \E t \in Threads :
                   /\ _monitor_ctx_lock = t
                   /\ _monitor_ctx_lock' = t
                   /\ opc[t] = "body"
          /\ (Opened /\ ~Opened')
             => (~Live' /\ probe'.closes = probe.closes + 1)]_vars

\* a registry whose first open() failed and whose retried open() succeeded
\* has been finished: one open, one close
C30_WitnessClosed ==
    /\ lastOp = "finish"
    /\ outcome = "ok"
    /\ ~Live
    /\ probe = [opens |-> 1, closes |-> 1]

\* the thread is in a call of iteration_start or iteration
InIterationCall(t) ==
    opc[t] # "idle" /\ pend[t].op \in {"iteration_start", "iteration"}

\* C28: under fair scheduling every call of iteration_start and iteration
\* returns, normally or with a usage error: the key's lock is taken only by
\* the thread that holds _monitor_ctx_lock, both are released when the call
\* ends, failed or not, and no call is blocked for ever.
C28_IterationCallsReturn ==
    /\ [](\A k \in DOMAIN _locks :
             _locks[k] => \E t \in Threads :
                             /\ _monitor_ctx_lock = t
                             /\ pend[t].key = k
                             /\ opc[t] \in {"iteration_start: push",
                                            "iteration: report", "release"})
    /\ [](_monitor_ctx_lock = "none" => \A t \in Threads : ~InOperation(t))
    /\ \A t \in Threads : InIterationCall(t) ~> (opc[t] = "idle")

\* a strict completion failed for want of a span while it held the key's
\* lock, and the other thread waits for the lock with a call on the same key
C28_WitnessFailedUnderLocks ==
    \E t, u \in Threads :
        /\ t # u
        /\ opc[t] = "release"
        /\ pend[t].op = "iteration"
        /\ outcome = "KeyError: no context"
        /\ _locks[pend[t].key]
        /\ opc[u] = "with _monitor_ctx_lock"
        /\ pend[u] = [op |-> "iteration_start", key |-> pend[t].key]

\* C32: the tracker holds no empty per-thread map: a thread has an entry in
\* _thr_ctx exactly when it has an open span, and the completion that closes
\* the last open span of a thread removes the thread's entry.
C32_NoEmptySpanMap ==
    /\ [](\A t \in Threads :
             t \in DOMAIN _thr_ctx <=> \E k \in Keys : HasSpan(t, k))
    /\ [](\A t \in DOMAIN _thr_ctx : DOMAIN _thr_ctx[t] # {})
    /\ [][\A t \in Threads, k \in Keys :
             (HasSpan(t, k) /\ DOMAIN _thr_ctx[t] = {k} /\ Live' /\ ~HasSpan(t, k)')
             => t \notin DOMAIN _thr_ctx']_vars

\* a timed completion closed the last span of one thread, whose entry is gone,
\* while the other thread keeps its entry with a span of the same key
C32_WitnessPruned ==
    /\ Live
    /\ lastOp = "iteration"
    /\ outcome = "ok"
    /\ \E t \in Threads, k \in Keys :
          /\ DOMAIN _thr_ctx = {t}
          /\ DOMAIN _thr_ctx[t] = {k}
          /\ _monitor_ctx.hb[k].timed
          /\ \A j \in MetricKeys(_monitor_ctx) \ {k} : _monitor_ctx.hb[j].count = 0

\* C33: handle_results never blocks on the label queue: a handler that is at
\* label_queue.get() finds a label there, also when the handlers overlap and
\* another handler took a label after this one's emptiness check; the queue
\* holds a label for every result that is still to be paired, and a handler in
\* RPC mode, where no label is put, never reaches the get.
WaitingForLabel(h) == hpc[h] = "get" /\ label_queue = <<>>

ToBePaired == {h \in Handlers : hpc[h] \in {"empty?", "get"}}

C33_NoHandlerBlocksOnLabels ==
    /\ \A h \in Handlers : ~WaitingForLabel(h)
    /\ cfg.mode = "rpc" => \A h \in Handlers : hpc[h] # "get"
    /\ (cfg.mode = "p2p" /\ mpc \notin {"init", "add_key", "iteration", "start_count",
                                        "start_count: value", "put_labels"})
           => Len(label_queue) >= Len(pipeline) + Cardinality(ToBePaired)

C33_WitnessOverlappingHandlers ==
    \E h \in Handlers : \E g \in Handlers \ {h} :
        /\ cfg.mode = "p2p"
        /\ hpc[h] = "get"
        /\ htask[h].id > htask[g].id
        /\ hpc[g] = "iteration"
        /\ htask[g].label # 0
        /\ Len(label_queue) = 1
        /\ pipeline = <<>>

\* C31: no microbatch is enqueued on a participant that does not hold the
\* stage assignment: the data rank gets to its batch, and runs it, only with a
\* schedule that was broadcast, by itself when it is rank 0 and otherwise by
\* rank 0 and received by handle_cmd; on a participant that still awaits the
\* schedule no label is queued, no microbatch is in the pipeline and no
\* result is handled.
HoldsSchedule ==
    /\ sched # NoSched
    /\ ScheduleBroadcast
    /\ rank # 0 => /\ peer.sched = <<sched[1], sched[2], sched[3], data_rank>>
                   /\ \E i \in DOMAIN received : received[i] = peer.sched

\* the main thread is past line 397: in its batch, or done with it
InBatch ==
    mpc \in {"start_count", "start_count: value", "put_labels", "enqueue_batch",
             "wait_gte", "wait_gte: call", "tok"}

C31_ScheduleBeforeMicrobatches ==
    /\ []((ppc = "batch" \/ InBatch \/ pipeline # <<>> \/ label_queue # <<>>)
             => HoldsSchedule /\ rank = data_rank)
    /\ [](PState = "AwaitingSchedule"
             => /\ sched = NoSched
                /\ pipeline = <<>> /\ label_queue = <<>> /\ resulted = {}
                /\ \A h \in Handlers : hpc[h] = "idle")
    /\ [][MainEnqueueBatch => HoldsSchedule /\ HoldsSchedule' /\ rank = data_rank]_vars

C31_WitnessBatchAfterReceivedSchedule ==
    /\ rank # 0
    /\ rank = data_rank
    /\ mpc = "wait_gte"
    /\ pipeline = Microbatches
    /\ HoldsSchedule
    /\ sched_q = <<>>

====
